---- MODULE Spec2Model ----
(***************************************************************************)
(* Model of vm-remote-control: the provider registry, one session engine   *)
(* (VMRemoteControlSessionImpl) with its frame loop, the backend drivers   *)
(* as seen from the session, and the SPICE driver's retry wrapper.         *)
(*                                                                         *)
(* Scheduling follows the Node.js event loop: continuations of promises    *)
(* that are already settled (mock/vnc/unsupported driver calls) wait in    *)
(* the FIFO microtask queue `micro`; external processes (virsh,            *)
(* vncsnapshot, vncdo) are in flight in `ext` and complete in any order,   *)
(* but only when the microtask queue is empty, as do timer ticks.          *)
(***************************************************************************)
EXTENDS Integers, Sequences, FiniteSets, Bags, TLC

----------------------------------------------------------------------------
(* Bounds *)

\* Timer ticks fired, and calls made by callers (close, endSession, snapshot,
\* sendInput, setClipboard, setViewport, healthCheck), in one behaviour.
MaxTicks == 2

MaxCalls == 3

\* Largest inputRetryCount tried.
MaxRetry == 3

\* How far pointer coordinates are tried around 0, the middle and the far
\* edge of each axis.
MaxOver == 1

\* Rows of the recognition table scanned in one OCR pass.
MaxRows == 3

\* Rows of the table behind an OCRResult that is searched.
MaxFindRows == 2

\* Longest text of a text or clipboard event.
MaxText == 2

\* Pieces a vision model's answer is put together from.
MaxChunks == 2

----------------------------------------------------------------------------
(* Program constants and input domains *)

DEFAULT_VIEWPORT == [width |-> 1280, height |-> 720]

SmallViewport == [width |-> 800, height |-> 600]

NoViewport == [width |-> 0, height |-> 0]

Viewports == {DEFAULT_VIEWPORT, SmallViewport}

\* VMBackend, plus one value outside the closed set (untyped callers).
KnownBackends == {"mock", "vnc", "rdp", "spice", "webrtc", "custom"}

Backends == KnownBackends \cup {"other"}

EventTypes == {"key", "text", "mouse-move", "mouse-button", "mouse-scroll", "clipboard"}

RetryLabels == {"QMP input", "virsh send-key", "HMP mouse_move", "HMP mouse_button"}

RetryDelays == {0, 60}

SID == 1

\* The range of a QMP absolute axis (`const max = 65535`).
MAX_ABS == 65535

\* A viewport small enough for every coordinate of an axis to be tried.
TinyViewport == [width |-> 6, height |-> 4]

MouseViewports == {DEFAULT_VIEWPORT, TinyViewport}

\* Pointer positions tried: around the corners and the middle of a viewport.
MouseAnchors(vp) ==
    {<<0, 0>>, <<vp.width \div 2, vp.height \div 2>>, <<vp.width, vp.height>>,
     <<vp.width, 0>>, <<0, vp.height>>}

MousePoints ==
    {<<a[1] + i, a[2] + j>> :
        a \in UNION {MouseAnchors(vp) : vp \in MouseViewports},
        i \in (0 - MaxOver)..MaxOver, j \in (0 - MaxOver)..MaxOver}

VARIABLES
    backend, driver, readOnly, sessions, status, frameTimer, viewport, drvViewport,
    micro, ext,
    startResult, startError, connectError,
    statusEvents, frameCount, lastFrame,
    ticks, loopFailures, loopUncaught,
    closeCalls, closeResolved, closeRejected,
    snapCalls, snapResolved, snapRejected,
    inputCalls, inputResolved, inputRejected, drvInputCalls, drvClipCalls, ignoredInput,
    healthFailed, viewportRejected, otherCalls, endNoops,
    inputRetryCount, inputRetryDelayMs, retryLabel, retryPc, attempt, opCalls,
    retryWarnings, retryReturned, retryThrown,
    absoluteMouse, mouseX, mouseY, qmpSent,
    words, lineMap, lineSeeds, rowsSeen, ocrPc, ocrLines, ocrText,
    findCall, matches,
    tmpDirs, tmpCreated, maxWidth, pngDims, resizePc, resizeResult, stagePc, stageResult,
    keyCall, keyPc, charIdx, dispatched, keyError, keyWarned,
    planText, planPc, planSummary, planActions, planRaw, planError,
    ptrCalls, delivered, mouseMask,
    chatResponse, genResponse, visionPc, requests, content,
    stageFile, shots

sessVars == <<backend, driver, readOnly, sessions, status, frameTimer, viewport, drvViewport>>

schedVars == <<micro, ext>>

startVars == <<startResult, startError, connectError>>

eventVars == <<statusEvents, frameCount, lastFrame>>

loopVars == <<ticks, loopFailures, loopUncaught>>

closeVars == <<closeCalls, closeResolved, closeRejected>>

snapVars == <<snapCalls, snapResolved, snapRejected>>

inputVars == <<inputCalls, inputResolved, inputRejected, drvInputCalls, drvClipCalls, ignoredInput>>

miscVars == <<healthFailed, viewportRejected, otherCalls, endNoops>>

retryVars == <<inputRetryCount, inputRetryDelayMs, retryLabel, retryPc, attempt, opCalls,
               retryWarnings, retryReturned, retryThrown>>

\* SpiceVirshDriver's cursor state and the pointer event it last dispatched.
mouseVars == <<absoluteMouse, mouseX, mouseY, qmpSent>>

\* runTesseract's locals while it scans the table, and its OCRResult.
ocrVars == <<words, lineMap, lineSeeds, rowsSeen, ocrPc, ocrLines, ocrText>>

\* The last findTextMatches call and what it returned.
findVars == <<findCall, matches>>

\* Temporary directories on disk, and where resizeImageIfNeeded and
\* runTesseract's staging stand.
tmpVars == <<tmpDirs, tmpCreated, maxWidth, pngDims, resizePc, resizeResult, stagePc, stageResult>>

\* The SPICE driver's key, text or clipboard call in progress: the call, where
\* it stands, the commands it has run, the wrapper whose error it raised.
keyVars == <<keyCall, keyPc, charIdx, dispatched, keyError, keyWarned>>

\* parseVisionPlan's argument, how it ended, and the plan it returned or the
\* text of the error it raised.
planVars == <<planText, planPc, planSummary, planActions, planRaw, planError>>

\* The pointer calls in progress on a SPICE driver, the pointer events the
\* backend has received, and the driver's button mask.
ptrVars == <<ptrCalls, delivered, mouseMask>>

\* One runVisionPlan call: the answers the two endpoints give, where the call
\* stands, the requests made, the text extracted.
reqVars == <<chatResponse, genResponse, visionPc, requests, content>>

\* The file a driver stages its screenshots in, and the captures using it.
shotVars == <<stageFile, shots>>

lateVars == <<ptrVars, reqVars, shotVars>>

sideVars == <<tmpVars, keyVars, planVars, lateVars>>

pureVars == <<mouseVars, ocrVars, findVars, sideVars>>

vars == <<sessVars, schedVars, startVars, eventVars, loopVars, closeVars, snapVars,
          inputVars, miscVars, retryVars, pureVars>>

----------------------------------------------------------------------------
(* Pending work: one record shape for microtasks and external processes *)

Task(k, origin, ok, dims, err) ==
    [k |-> k, origin |-> origin, ok |-> ok, dims |-> dims, err |-> err]

\* `ext` is a bag: processes in flight are unordered and may be equal.
Spawn(b, t) == b (+) SetToBag({t})

Reap(b, t) == b (-) SetToBag({t})

InFlight(b, k) == {t \in BagToSet(b) : t.k = k}

CallsMade == closeCalls + snapCalls + inputCalls + otherCalls + endNoops

Count(s, v) == Cardinality({i \in 1..Len(s) : s[i] = v})

LoopCapturesInFlight ==
    Cardinality({i \in 1..Len(micro) : micro[i].k = "capture" /\ micro[i].origin = "loop"})
    + BagCardinality([t \in {u \in BagToSet(ext) : u.k = "capture" /\ u.origin = "loop"}
                         |-> CopiesIn(t, ext)])

\* Driver calls that settle without awaiting an external process: their
\* continuation is a microtask.  connect: Mock 454, Vnc 513, Unsupported 1038;
\* captureFrame: Mock 465, Unsupported 1046 (Vnc 521 and Spice 844 run a process).
ConnectImmediate(d) == d \in {"mock", "vnc", "unsupported"}

CaptureImmediate(d) == d \in {"mock", "unsupported"}

DriverFails(d) == d = "unsupported"

----------------------------------------------------------------------------
(* Provider.createDriver *)

\* Variant: the default case falls through to the mock driver.
createDriver_AllMock(b, hasTarget) ==
    IF b = "spice" THEN (IF hasTarget THEN "spice" ELSE "throw")
    ELSE IF b = "vnc" THEN "vnc"
    ELSE "mock"

createDriver(b, hasTarget) ==
    IF b = "mock" THEN "mock"
    ELSE IF b = "spice" THEN (IF hasTarget THEN "spice" ELSE "throw")
    ELSE IF b = "vnc" THEN "vnc"
    ELSE IF b \in {"custom", "rdp", "webrtc"} THEN "mock"
    ELSE "unsupported"

----------------------------------------------------------------------------
(* Session engine: VMRemoteControlSessionImpl *)

\* Variant: the registry listener reacts to 'disconnected' only.
EmitStatus_DisconnectedOnly(st) ==
    /\ statusEvents' = Append(statusEvents, st)
    /\ sessions' = IF st = "disconnected" THEN sessions \ {SID} ELSE sessions

\* emit('status', st) with the listener startSession registers (1281-1285).
EmitStatus(st) ==
    /\ statusEvents' = Append(statusEvents, st)
    /\ sessions' = IF st \in {"disconnected", "error"} THEN sessions \ {SID} ELSE sessions

\* beginFrameLoop: any previous timer is cleared, a new interval timer is set.
beginFrameLoop ==
    frameTimer' = TRUE

\* start(), after driver.connect() resolved (1092-1094).
StartConnected ==
    /\ status' = "connected"
    /\ EmitStatus("connected")
    /\ beginFrameLoop
    /\ startResult' = "resolved"
    /\ UNCHANGED <<startError, connectError>>

\* Variant: the catch branch records the failure but does not rethrow.
StartFailed_NoRethrow(err) ==
    /\ connectError' = err
    /\ status' = "error"
    /\ EmitStatus("error")
    /\ startResult' = "resolved"
    /\ UNCHANGED <<startError, frameTimer>>

\* start(), catch branch (1095-1100); err is what driver.connect() raised.
StartFailed(err) ==
    /\ connectError' = err
    /\ status' = "error"
    /\ EmitStatus("error")
    /\ startResult' = "rejected"
    /\ startError' = err
    /\ UNCHANGED frameTimer

\* driver.connect() as called by start(): where its settlement is pending.
DriverConnect(d) ==
    IF ConnectImmediate(d)
    THEN /\ micro' = Append(micro, Task("connect", "start", ~DriverFails(d), NoViewport,
                                        IF DriverFails(d) THEN "not_implemented" ELSE "none"))
         /\ UNCHANGED ext
    ELSE /\ ext' = Spawn(ext, Task("connect", "domstate", TRUE, NoViewport, "none"))
         /\ UNCHANGED micro

\* Variant: the session is registered before the driver is created.
StartSession_RegisterFirst(b, hasTarget, ro, vp) ==
    /\ backend = "none"
    /\ backend' = b
    /\ sessions' = sessions \cup {SID}
    /\ IF createDriver(b, hasTarget) = "throw"
       THEN /\ startResult' = "rejected"
            /\ startError' = "config"
            /\ UNCHANGED <<driver, readOnly, status, frameTimer, viewport,
                           drvViewport, micro, ext, connectError>>
       ELSE /\ driver' = createDriver(b, hasTarget)
            /\ readOnly' = ro
            /\ viewport' = vp
            /\ drvViewport' = IF createDriver(b, hasTarget) = "spice" THEN vp ELSE NoViewport
            /\ status' = "connecting"
            /\ startResult' = "pending"
            /\ DriverConnect(createDriver(b, hasTarget))
            /\ UNCHANGED <<frameTimer, startError, connectError>>
    /\ UNCHANGED <<statusEvents, frameCount, lastFrame>>
    /\ UNCHANGED <<loopVars, closeVars, snapVars, inputVars, miscVars, retryVars, pureVars>>

\* provider.startSession(params) up to the await inside session.start().
StartSession(b, hasTarget, ro, vp) ==
    /\ backend = "none"
    /\ backend' = b
    /\ IF createDriver(b, hasTarget) = "throw"
       THEN /\ startResult' = "rejected"
            /\ startError' = "config"
            /\ UNCHANGED <<driver, readOnly, sessions, status, frameTimer, viewport,
                           drvViewport, micro, ext, connectError>>
       ELSE /\ driver' = createDriver(b, hasTarget)
            /\ readOnly' = ro
            /\ viewport' = vp
            /\ drvViewport' = IF createDriver(b, hasTarget) = "spice" THEN vp ELSE NoViewport
            /\ status' = "connecting"
            /\ sessions' = sessions \cup {SID}
            /\ startResult' = "pending"
            /\ DriverConnect(createDriver(b, hasTarget))
            /\ UNCHANGED <<frameTimer, startError, connectError>>
    /\ UNCHANGED <<statusEvents, frameCount, lastFrame>>
    /\ UNCHANGED <<loopVars, closeVars, snapVars, inputVars, miscVars, retryVars, pureVars>>

\* The continuation of `await this.driver.connect()` for a settled promise.
ConnectCont ==
    /\ micro # <<>>
    /\ Head(micro).k = "connect"
    /\ micro' = Tail(micro)
    /\ IF Head(micro).ok THEN StartConnected ELSE StartFailed(Head(micro).err)
    /\ UNCHANGED <<backend, driver, readOnly, viewport, drvViewport, ext>>
    /\ UNCHANGED <<frameCount, lastFrame>>
    /\ UNCHANGED <<loopVars, closeVars, snapVars, inputVars, miscVars, retryVars, pureVars>>

\* SpiceVirshDriver.connect: virsh domstate, then virsh domdisplay (834-838).
SpiceConnectStep(t, ok) ==
    /\ micro = <<>>
    /\ t \in InFlight(ext, "connect")
    /\ IF ~ok
       THEN /\ ext' = Reap(ext, t)
            /\ StartFailed(t.origin)
       ELSE IF t.origin = "domstate"
       THEN /\ ext' = Spawn(Reap(ext, t),
                            Task("connect", "domdisplay", TRUE, NoViewport, "none"))
            /\ UNCHANGED <<status, statusEvents, sessions, frameTimer, startVars>>
       ELSE /\ ext' = Reap(ext, t)
            /\ StartConnected
    /\ UNCHANGED <<backend, driver, readOnly, viewport, drvViewport, micro>>
    /\ UNCHANGED <<frameCount, lastFrame>>
    /\ UNCHANGED <<loopVars, closeVars, snapVars, inputVars, miscVars, retryVars, pureVars>>

----------------------------------------------------------------------------
(* Captures: snapshot() and the frame loop *)

\* driver.captureFrame(this.viewport) as called by snapshot(): the hint is
\* the session viewport at call time.
DriverCapture(origin) ==
    IF CaptureImmediate(driver)
    THEN /\ micro' = Append(micro, Task("capture", origin, ~DriverFails(driver), viewport,
                                        IF DriverFails(driver) THEN "not_implemented" ELSE "none"))
         /\ UNCHANGED ext
    ELSE /\ ext' = Spawn(ext, Task("capture", origin, TRUE, viewport, "none"))
         /\ UNCHANGED micro

\* The size of the Frame a driver returns: Mock 470-471 (the hint),
\* Vnc 528 (detected ?? DEFAULT_VIEWPORT), Spice 854 (detected ?? hint).
FrameSize(d, hint, detected) ==
    IF d = "mock" THEN hint
    ELSE IF d = "vnc" THEN (IF detected = NoViewport THEN DEFAULT_VIEWPORT ELSE detected)
    ELSE (IF detected = NoViewport THEN hint ELSE detected)

\* Variant: the frame size is not adopted.
SnapshotAdopt_Keep(frame) ==
    viewport' = viewport

\* snapshot(), after captureFrame resolved (1119-1122): adopt the frame size.
SnapshotAdopt(frame) ==
    viewport' = IF frame.width # viewport.width \/ frame.height # viewport.height
                THEN [width |-> frame.width, height |-> frame.height]
                ELSE viewport

\* The loop callback after a successful snapshot (1110): emit('frame', frame).
TickSuccess ==
    /\ frameCount' = frameCount + 1
    /\ UNCHANGED <<status, statusEvents, sessions, loopFailures, loopUncaught>>

\* Variant: a failed tick is treated as fatal to the session.
TickFailure_Fatal ==
    /\ loopFailures' = loopFailures + 1
    /\ status' = "error"
    /\ EmitStatus("error")
    /\ UNCHANGED <<frameCount, loopUncaught>>

\* The loop callback's catch branch (1111-1113): logger.warn only.
TickFailure ==
    /\ loopFailures' = loopFailures + 1
    /\ UNCHANGED <<status, statusEvents, sessions, frameCount, loopUncaught>>

\* Variant: a capture failure inside a tick is also raised to a caller.
CaptureSettled_Surfaced(t, ok, frame) ==
    /\ IF ok
       THEN /\ SnapshotAdopt(frame)
            /\ lastFrame' = frame
       ELSE UNCHANGED <<viewport, lastFrame>>
    /\ IF t.origin = "loop"
       THEN /\ IF ok THEN TickSuccess ELSE TickFailure
            /\ snapRejected' = IF ok THEN snapRejected ELSE snapRejected + 1
            /\ UNCHANGED snapResolved
       ELSE /\ IF ok
               THEN snapResolved' = snapResolved + 1 /\ UNCHANGED snapRejected
               ELSE snapRejected' = snapRejected + 1 /\ UNCHANGED snapResolved
            /\ UNCHANGED <<status, statusEvents, sessions, frameCount, loopFailures,
                           loopUncaught>>

\* What follows a settled captureFrame, for the loop and for on-demand callers.
CaptureSettled(t, ok, frame) ==
    /\ IF ok
       THEN /\ SnapshotAdopt(frame)
            /\ lastFrame' = frame
       ELSE UNCHANGED <<viewport, lastFrame>>
    /\ IF t.origin = "loop"
       THEN /\ IF ok THEN TickSuccess ELSE TickFailure
            /\ UNCHANGED <<snapResolved, snapRejected>>
       ELSE /\ IF ok
               THEN snapResolved' = snapResolved + 1 /\ UNCHANGED snapRejected
               ELSE snapRejected' = snapRejected + 1 /\ UNCHANGED snapResolved
            /\ UNCHANGED <<status, statusEvents, sessions, frameCount, loopFailures,
                           loopUncaught>>

\* Variant: the timer stops firing once a tick has failed.
Tick_StopsAfterFailure ==
    /\ frameTimer
    /\ loopFailures = 0
    /\ micro = <<>>
    /\ ticks < MaxTicks
    /\ ticks' = ticks + 1
    /\ DriverCapture("loop")
    /\ UNCHANGED <<sessVars, startVars, eventVars, loopFailures, loopUncaught>>
    /\ UNCHANGED <<closeVars, snapVars, inputVars, miscVars, retryVars, pureVars>>

\* setInterval callback (1107-1114): one tick starts one snapshot().
Tick ==
    /\ frameTimer
    /\ micro = <<>>
    /\ ticks < MaxTicks
    /\ ticks' = ticks + 1
    /\ DriverCapture("loop")
    /\ UNCHANGED <<sessVars, startVars, eventVars, loopFailures, loopUncaught>>
    /\ UNCHANGED <<closeVars, snapVars, inputVars, miscVars, retryVars, pureVars>>

\* snapshot() called on demand, directly or as the first step of ocrSnapshot
\* (1126), findText (1136, through ocrSnapshot) and visionPlan (1141).
Snapshot ==
    /\ status # "none"
    /\ CallsMade < MaxCalls
    /\ snapCalls' = snapCalls + 1
    /\ DriverCapture("demand")
    /\ UNCHANGED <<sessVars, startVars, eventVars, loopVars, snapResolved, snapRejected>>
    /\ UNCHANGED <<closeVars, inputVars, miscVars, retryVars, pureVars>>

\* Continuation of an already settled captureFrame (mock, unsupported).
CaptureCont ==
    /\ micro # <<>>
    /\ Head(micro).k = "capture"
    /\ micro' = Tail(micro)
    /\ CaptureSettled(Head(micro), Head(micro).ok,
                      FrameSize(driver, Head(micro).dims, NoViewport))
    /\ UNCHANGED <<backend, driver, readOnly, frameTimer, drvViewport, ext>>
    /\ UNCHANGED <<startVars, ticks, snapCalls>>
    /\ UNCHANGED <<closeVars, inputVars, miscVars, retryVars, pureVars>>

\* Completion of the capture process of Vnc (521-536) or Spice (844-865);
\* detected = NoViewport stands for readPngDimensions returning null.
CaptureDone(t, ok, detected) ==
    /\ micro = <<>>
    /\ t \in InFlight(ext, "capture")
    /\ ext' = Reap(ext, t)
    /\ drvViewport' = IF ok /\ driver = "spice" /\ detected # NoViewport
                      THEN detected ELSE drvViewport
    /\ CaptureSettled(t, ok, FrameSize(driver, t.dims, detected))
    /\ UNCHANGED <<backend, driver, readOnly, frameTimer, micro>>
    /\ UNCHANGED <<startVars, ticks, snapCalls>>
    /\ UNCHANGED <<closeVars, inputVars, miscVars, retryVars, pureVars>>

----------------------------------------------------------------------------
(* close() and provider.endSession() *)

\* close() up to `await this.driver.disconnect()` (1181-1185); via = "provider"
\* is endSession (1292-1297), which needs the session in the registry.
Close(via) ==
    /\ status # "none"
    /\ via = "provider" => SID \in sessions
    /\ CallsMade < MaxCalls
    /\ closeCalls' = closeCalls + 1
    /\ frameTimer' = FALSE
    /\ micro' = Append(micro, Task("close", via, ~DriverFails(driver), NoViewport,
                                   IF DriverFails(driver) THEN "not_implemented" ELSE "none"))
    /\ UNCHANGED <<backend, driver, readOnly, sessions, status, viewport, drvViewport, ext>>
    /\ UNCHANGED <<startVars, eventVars, loopVars, closeResolved, closeRejected>>
    /\ UNCHANGED <<snapVars, inputVars, miscVars, retryVars, pureVars>>

\* close() after disconnect settled (1186-1187); endSession then deletes the id.
CloseSettled(ok) ==
    IF ok
    THEN /\ status' = "disconnected"
         /\ EmitStatus("disconnected")
         /\ closeResolved' = closeResolved + 1
         /\ UNCHANGED closeRejected
    ELSE /\ closeRejected' = closeRejected + 1
         /\ UNCHANGED <<status, statusEvents, sessions, closeResolved>>

CloseCont ==
    /\ micro # <<>>
    /\ Head(micro).k = "close"
    /\ micro' = Tail(micro)
    /\ CloseSettled(Head(micro).ok)
    /\ UNCHANGED <<backend, driver, readOnly, frameTimer, viewport, drvViewport, ext>>
    /\ UNCHANGED <<startVars, frameCount, lastFrame, loopVars, closeCalls>>
    /\ UNCHANGED <<snapVars, inputVars, miscVars, retryVars, pureVars>>

\* endSession(id) when the registry has no such id (1293-1294): it returns at
\* once.  endNoops counts these calls.
EndSessionUnknown ==
    /\ SID \notin sessions
    /\ CallsMade < MaxCalls
    /\ endNoops' = endNoops + 1
    /\ UNCHANGED <<sessVars, schedVars, startVars, eventVars, loopVars, closeVars>>
    /\ UNCHANGED <<snapVars, inputVars, healthFailed, viewportRejected, otherCalls>>
    /\ UNCHANGED <<retryVars, pureVars>>

----------------------------------------------------------------------------
(* Input, clipboard, viewport, health *)

\* What driver.sendInput / driver.setClipboard does once the session has
\* called it: Mock (476, 480) resolves, Unsupported (1050, 1054) rejects, Vnc
\* and Spice dispatch through an external process that succeeds or fails.
DriverDispatch(kind) ==
    IF driver \in {"mock", "unsupported"}
    THEN /\ IF DriverFails(driver)
            THEN inputRejected' = inputRejected + 1 /\ UNCHANGED inputResolved
            ELSE inputResolved' = inputResolved + 1 /\ UNCHANGED inputRejected
         /\ UNCHANGED ext
    ELSE /\ ext' = Spawn(ext, Task(kind, "caller", TRUE, NoViewport, "none"))
         /\ UNCHANGED <<inputResolved, inputRejected>>

\* Variant: sendInput without the read-only guard.
SendInput_NoGuard(ev) ==
    /\ status # "none"
    /\ CallsMade < MaxCalls
    /\ inputCalls' = inputCalls + 1
    /\ drvInputCalls' = drvInputCalls + 1
    /\ DriverDispatch("input")
    /\ UNCHANGED <<sessVars, micro, startVars, eventVars, loopVars, closeVars, snapVars>>
    /\ UNCHANGED <<drvClipCalls, ignoredInput, miscVars, retryVars, pureVars>>

\* sendInput(event) (1155-1161).
SendInput(ev) ==
    /\ status # "none"
    /\ CallsMade < MaxCalls
    /\ inputCalls' = inputCalls + 1
    /\ IF readOnly
       THEN /\ ignoredInput' = ev
            /\ inputResolved' = inputResolved + 1
            /\ UNCHANGED <<inputRejected, drvInputCalls, ext>>
       ELSE /\ drvInputCalls' = drvInputCalls + 1
            /\ DriverDispatch("input")
            /\ UNCHANGED ignoredInput
    /\ UNCHANGED <<sessVars, micro, startVars, eventVars, loopVars, closeVars, snapVars>>
    /\ UNCHANGED <<drvClipCalls, miscVars, retryVars, pureVars>>

\* setClipboard(text) (1168-1174).
SetClipboard ==
    /\ status # "none"
    /\ CallsMade < MaxCalls
    /\ inputCalls' = inputCalls + 1
    /\ IF readOnly
       THEN /\ ignoredInput' = "setClipboard"
            /\ inputResolved' = inputResolved + 1
            /\ UNCHANGED <<inputRejected, drvClipCalls, ext>>
       ELSE /\ drvClipCalls' = drvClipCalls + 1
            /\ DriverDispatch("clipboard")
            /\ UNCHANGED ignoredInput
    /\ UNCHANGED <<sessVars, micro, startVars, eventVars, loopVars, closeVars, snapVars>>
    /\ UNCHANGED <<drvInputCalls, miscVars, retryVars, pureVars>>

\* Variant: a failed dispatch is treated as fatal to the session.
InputDone_Fatal(t, ok) ==
    /\ micro = <<>>
    /\ t \in InFlight(ext, "input") \cup InFlight(ext, "clipboard")
    /\ ext' = Reap(ext, t)
    /\ IF ok
       THEN /\ inputResolved' = inputResolved + 1
            /\ UNCHANGED <<inputRejected, status, statusEvents, sessions>>
       ELSE /\ inputRejected' = inputRejected + 1
            /\ status' = "error"
            /\ EmitStatus("error")
            /\ UNCHANGED inputResolved
    /\ UNCHANGED <<backend, driver, readOnly, frameTimer, viewport, drvViewport>>
    /\ UNCHANGED <<micro, startVars, frameCount, lastFrame, loopVars, closeVars, snapVars>>
    /\ UNCHANGED <<inputCalls, drvInputCalls, drvClipCalls, ignoredInput, miscVars, retryVars, pureVars>>

\* Completion of a Vnc / Spice input or clipboard dispatch.
InputDone(t, ok) ==
    /\ micro = <<>>
    /\ t \in InFlight(ext, "input") \cup InFlight(ext, "clipboard")
    /\ ext' = Reap(ext, t)
    /\ IF ok
       THEN inputResolved' = inputResolved + 1 /\ UNCHANGED inputRejected
       ELSE inputRejected' = inputRejected + 1 /\ UNCHANGED inputResolved
    /\ UNCHANGED <<sessVars, micro, startVars, eventVars, loopVars, closeVars, snapVars>>
    /\ UNCHANGED <<inputCalls, drvInputCalls, drvClipCalls, ignoredInput, miscVars, retryVars, pureVars>>

\* setViewport(viewport) (1163-1166): the session field is set before the
\* driver is called; Spice caches it (1017-1019), Unsupported rejects (1058).
SetViewport(vp) ==
    /\ status # "none"
    /\ CallsMade < MaxCalls
    /\ otherCalls' = otherCalls + 1
    /\ viewport' = vp
    /\ drvViewport' = IF driver = "spice" THEN vp ELSE drvViewport
    /\ viewportRejected' = DriverFails(driver)
    /\ UNCHANGED <<backend, driver, readOnly, sessions, status, frameTimer>>
    /\ UNCHANGED <<schedVars, startVars, eventVars, loopVars, closeVars, snapVars>>
    /\ UNCHANGED <<inputVars, healthFailed, endNoops, retryVars, pureVars>>

\* healthCheck() (1176-1178): Mock 488 and Vnc 592 answer true, Spice 1021
\* answers whether `virsh domstate` ran, Unsupported 1062 rejects.
\* healthFailed records that the last check rejected or answered false.
HealthCheck(up) ==
    /\ status # "none"
    /\ CallsMade < MaxCalls
    /\ otherCalls' = otherCalls + 1
    /\ healthFailed' = (DriverFails(driver) \/ (driver = "spice" /\ ~up))
    /\ UNCHANGED <<sessVars, schedVars, startVars, eventVars, loopVars, closeVars>>
    /\ UNCHANGED <<snapVars, inputVars, viewportRejected, endNoops, retryVars, pureVars>>

----------------------------------------------------------------------------
(* Values of the parts of the state a specification does not exercise *)

\* No pointer event dispatched yet.
NoSent == [kind |-> "none", x |-> 0, y |-> 0, w |-> 0, h |-> 0]

\* No findTextMatches call made yet.
NoCall == [query |-> <<>>, matchCase |-> FALSE, scope |-> "none"]

\* No provider call made yet.
SessionIdle ==
    /\ sessions = {}
    /\ status = "none" /\ frameTimer = FALSE
    /\ viewport = NoViewport
    /\ micro = <<>> /\ ext = EmptyBag
    /\ startResult = "none" /\ startError = "none" /\ connectError = "none"
    /\ statusEvents = <<>> /\ frameCount = 0 /\ lastFrame = NoViewport
    /\ ticks = 0 /\ loopFailures = 0 /\ loopUncaught = 0
    /\ closeCalls = 0 /\ closeResolved = 0 /\ closeRejected = 0
    /\ snapCalls = 0 /\ snapResolved = 0 /\ snapRejected = 0
    /\ inputCalls = 0 /\ inputResolved = 0 /\ inputRejected = 0
    /\ drvInputCalls = 0 /\ drvClipCalls = 0 /\ ignoredInput = "none"
    /\ healthFailed = FALSE /\ viewportRejected = FALSE /\ otherCalls = 0 /\ endNoops = 0

\* The retry wrapper with the default options (1342-1343), not running.
RetryIdle ==
    /\ inputRetryCount = 2 /\ inputRetryDelayMs = 60 /\ retryLabel = "QMP input"
    /\ retryPc = "idle" /\ attempt = 0 /\ opCalls = 0
    /\ retryWarnings = 0 /\ retryReturned = 0 /\ retryThrown = 0

\* The SPICE driver's cursor fields as constructed (674-675, 1341).
MouseIdle ==
    /\ absoluteMouse = TRUE /\ mouseX = 0 /\ mouseY = 0 /\ qmpSent = NoSent

\* No OCR pass running.
OcrIdle ==
    /\ words = <<>> /\ lineMap = <<>> /\ lineSeeds = {} /\ rowsSeen = 0
    /\ ocrPc = "idle" /\ ocrLines = <<>> /\ ocrText = <<>>

FindIdle ==
    /\ findCall = NoCall /\ matches = <<>>

\* No temporary directory exists and neither pipeline has been called.
TmpIdle ==
    /\ tmpDirs = {} /\ tmpCreated = {}
    /\ maxWidth = 0 /\ pngDims = NoViewport
    /\ resizePc = "idle" /\ resizeResult = "none"
    /\ stagePc = "idle" /\ stageResult = "none"

\* No key, text or clipboard call made on the SPICE driver yet.
KeyIdle ==
    /\ keyCall = [type |-> "none", key |-> "", action |-> "none", modifiers |-> <<>>,
                  text |-> <<>>]
    /\ keyPc = "idle" /\ charIdx = 0 /\ dispatched = <<>>
    /\ keyError = "none" /\ keyWarned = FALSE

\* parseVisionPlan not called yet.
PlanIdle ==
    /\ planText = <<>> /\ planPc = "idle"
    /\ planSummary = [k |-> "undef", s |-> "", n |-> 0, items |-> <<>>]
    /\ planActions = <<>> /\ planRaw = <<>> /\ planError = <<>>

\* No pointer call made on the SPICE driver yet (676).
PtrIdle ==
    /\ ptrCalls = <<>> /\ delivered = <<>> /\ mouseMask = 0

\* runVisionPlan not called yet.
ReqIdle ==
    /\ chatResponse = [outcome |-> "none", body |-> <<>>]
    /\ genResponse = [outcome |-> "none", body |-> <<>>]
    /\ visionPc = "idle" /\ requests = 0
    /\ content = [from |-> "none", empty |-> TRUE]

\* No capture has staged a screenshot yet.
ShotIdle ==
    /\ stageFile = 0 /\ shots = <<>>

LateIdle == PtrIdle /\ ReqIdle /\ ShotIdle

SideIdle == TmpIdle /\ KeyIdle /\ PlanIdle /\ LateIdle

----------------------------------------------------------------------------
(* The session specification *)

Init ==
    /\ backend = "none" /\ driver = "none" /\ readOnly = FALSE /\ sessions = {}
    /\ status = "none" /\ frameTimer = FALSE
    /\ viewport = NoViewport /\ drvViewport = NoViewport
    /\ micro = <<>> /\ ext = EmptyBag
    /\ startResult = "none" /\ startError = "none" /\ connectError = "none"
    /\ statusEvents = <<>> /\ frameCount = 0 /\ lastFrame = NoViewport
    /\ ticks = 0 /\ loopFailures = 0 /\ loopUncaught = 0
    /\ closeCalls = 0 /\ closeResolved = 0 /\ closeRejected = 0
    /\ snapCalls = 0 /\ snapResolved = 0 /\ snapRejected = 0
    /\ inputCalls = 0 /\ inputResolved = 0 /\ inputRejected = 0
    /\ drvInputCalls = 0 /\ drvClipCalls = 0 /\ ignoredInput = "none"
    /\ healthFailed = FALSE /\ viewportRejected = FALSE /\ otherCalls = 0 /\ endNoops = 0
    /\ inputRetryCount = 2 /\ inputRetryDelayMs = 60 /\ retryLabel = "QMP input"
    /\ retryPc = "idle" /\ attempt = 0 /\ opCalls = 0
    /\ retryWarnings = 0 /\ retryReturned = 0 /\ retryThrown = 0
    /\ MouseIdle /\ OcrIdle /\ FindIdle /\ SideIdle

Next ==
    \/ \E b \in Backends, hasTarget \in BOOLEAN, ro \in BOOLEAN, vp \in Viewports :
          StartSession(b, hasTarget, ro, vp)
    \/ ConnectCont
    \/ \E t \in BagToSet(ext), ok \in BOOLEAN : SpiceConnectStep(t, ok)
    \/ Tick
    \/ Snapshot
    \/ CaptureCont
    \/ \E t \in BagToSet(ext), ok \in BOOLEAN, detected \in Viewports \cup {NoViewport} :
          CaptureDone(t, ok, detected)
    \/ \E via \in {"session", "provider"} : Close(via)
    \/ CloseCont
    \/ EndSessionUnknown
    \/ \E ev \in EventTypes : SendInput(ev)
    \/ SetClipboard
    \/ \E t \in BagToSet(ext), ok \in BOOLEAN : InputDone(t, ok)
    \/ \E vp \in Viewports : SetViewport(vp)
    \/ \E up \in BOOLEAN : HealthCheck(up)

Spec == Init /\ [][Next]_vars

----------------------------------------------------------------------------
(* SpiceVirshDriver.runWithRetry (801-817) *)

\* The k-th invocation of the wrapped operation raises error k or returns
\* value k, so that results and errors of different attempts are distinct.

\* Variant: the exhaustion test is off by one (attempt > inputRetryCount).
RetryCatch_OffByOne(k) ==
    IF attempt > inputRetryCount
    THEN /\ retryPc' = "thrown"
         /\ retryThrown' = k
         /\ UNCHANGED <<attempt, retryWarnings>>
    ELSE /\ attempt' = attempt + 1
         /\ retryWarnings' = retryWarnings + 1
         /\ retryPc' = IF inputRetryDelayMs > 0 THEN "sleep" ELSE "call"
         /\ UNCHANGED retryThrown

\* The catch branch: rethrow when attempt >= inputRetryCount, else count the
\* attempt, warn, and sleep when a delay is configured.
RetryCatch(k) ==
    IF attempt >= inputRetryCount
    THEN /\ retryPc' = "thrown"
         /\ retryThrown' = k
         /\ UNCHANGED <<attempt, retryWarnings>>
    ELSE /\ attempt' = attempt + 1
         /\ retryWarnings' = retryWarnings + 1
         /\ retryPc' = IF inputRetryDelayMs > 0 THEN "sleep" ELSE "call"
         /\ UNCHANGED retryThrown

\* One pass of the loop body: `return await operation()` or the catch branch.
RetryAttempt(ok) ==
    /\ retryPc = "call"
    /\ opCalls' = opCalls + 1
    /\ IF ok
       THEN /\ retryPc' = "returned"
            /\ retryReturned' = opCalls + 1
            /\ UNCHANGED <<attempt, retryWarnings, retryThrown>>
       ELSE /\ RetryCatch(opCalls + 1)
            /\ UNCHANGED retryReturned
    /\ UNCHANGED <<inputRetryCount, inputRetryDelayMs, retryLabel>>
    /\ UNCHANGED <<sessVars, schedVars, startVars, eventVars, loopVars, closeVars>>
    /\ UNCHANGED <<snapVars, inputVars, miscVars, pureVars>>

\* await sleep(inputRetryDelayMs) is over.
RetryWake ==
    /\ retryPc = "sleep"
    /\ retryPc' = "call"
    /\ UNCHANGED <<inputRetryCount, inputRetryDelayMs, retryLabel, attempt, opCalls,
                   retryWarnings, retryReturned, retryThrown>>
    /\ UNCHANGED <<sessVars, schedVars, startVars, eventVars, loopVars, closeVars>>
    /\ UNCHANGED <<snapVars, inputVars, miscVars, pureVars>>

InitRetry ==
    /\ backend = "spice" /\ driver = "spice" /\ readOnly = FALSE /\ sessions = {}
    /\ status = "none" /\ frameTimer = FALSE
    /\ viewport = NoViewport /\ drvViewport = NoViewport
    /\ micro = <<>> /\ ext = EmptyBag
    /\ startResult = "none" /\ startError = "none" /\ connectError = "none"
    /\ statusEvents = <<>> /\ frameCount = 0 /\ lastFrame = NoViewport
    /\ ticks = 0 /\ loopFailures = 0 /\ loopUncaught = 0
    /\ closeCalls = 0 /\ closeResolved = 0 /\ closeRejected = 0
    /\ snapCalls = 0 /\ snapResolved = 0 /\ snapRejected = 0
    /\ inputCalls = 0 /\ inputResolved = 0 /\ inputRejected = 0
    /\ drvInputCalls = 0 /\ drvClipCalls = 0 /\ ignoredInput = "none"
    /\ healthFailed = FALSE /\ viewportRejected = FALSE /\ otherCalls = 0 /\ endNoops = 0
    /\ inputRetryCount \in 0..MaxRetry
    /\ inputRetryDelayMs \in RetryDelays
    /\ retryLabel \in RetryLabels
    /\ retryPc = "call" /\ attempt = 0 /\ opCalls = 0
    /\ retryWarnings = 0 /\ retryReturned = 0 /\ retryThrown = 0
    /\ MouseIdle /\ OcrIdle /\ FindIdle /\ SideIdle

NextRetry ==
    \/ \E ok \in BOOLEAN : RetryAttempt(ok)
    \/ RetryWake

\* The event loop runs a continuation that is ready and fires a due timer.
SpecRetry == InitRetry /\ [][NextRetry]_vars /\ WF_vars(NextRetry)

----------------------------------------------------------------------------
(* SpiceVirshDriver.sendInput, case 'mouse-move' (920-942) *)

Min(a, b) == IF a <= b THEN a ELSE b

Max(a, b) == IF a >= b THEN a ELSE b

\* Variant: the quotient is truncated instead of rounded.
JsRound_Trunc(num, den) ==
    num \div den

\* Math.round(num / den) for den > 0: the nearest integer, a half going up
\* (towards +Infinity), also for negative quotients.
JsRound(num, den) ==
    (2 * num + den) \div (2 * den)

\* Variant: the scaled value is sent without clamping.
ScaleAbs_NoClamp(logical, dim) ==
    JsRound(logical * MAX_ABS, dim)

\* Math.max(0, Math.min(max, Math.round((logical / dim) * max))) (925-926).
ScaleAbs(logical, dim) ==
    Max(0, Min(MAX_ABS, JsRound(logical * MAX_ABS, dim)))

\* One mouse-move event: absolute mode scales with the driver's cached
\* viewport (921-931), relative mode sends the rounded difference to the
\* recorded cursor position (933-941).  qmpSent is the event handed to the
\* dispatch, with the viewport that was used.
MouseMove(x, y) ==
    /\ mouseX' = x
    /\ mouseY' = y
    /\ qmpSent' = IF absoluteMouse
                  THEN [kind |-> "abs",
                        x |-> ScaleAbs(x, drvViewport.width),
                        y |-> ScaleAbs(y, drvViewport.height),
                        w |-> drvViewport.width, h |-> drvViewport.height]
                  ELSE [kind |-> "rel", x |-> x - mouseX, y |-> y - mouseY,
                        w |-> 0, h |-> 0]
    /\ UNCHANGED <<sessVars, schedVars, startVars, eventVars, loopVars, closeVars>>
    /\ UNCHANGED <<snapVars, inputVars, miscVars, retryVars, absoluteMouse, ocrVars, findVars, sideVars>>

\* SpiceVirshDriver.setViewport (1017-1019): the cached viewport is replaced.
SpiceSetViewport(vp) ==
    /\ vp # drvViewport
    /\ drvViewport' = vp
    /\ UNCHANGED <<backend, driver, readOnly, sessions, status, frameTimer, viewport>>
    /\ UNCHANGED <<schedVars, startVars, eventVars, loopVars, closeVars>>
    /\ UNCHANGED <<snapVars, inputVars, miscVars, retryVars, pureVars>>

\* The driver as constructed by createDriver (1341-1355) with either value
\* of spice.absolute_mouse and a viewport, before any provider call.
InitMouse ==
    /\ backend = "spice" /\ driver = "spice" /\ readOnly = FALSE
    /\ drvViewport \in MouseViewports
    /\ SessionIdle /\ RetryIdle
    /\ absoluteMouse \in BOOLEAN /\ mouseX = 0 /\ mouseY = 0 /\ qmpSent = NoSent
    /\ OcrIdle /\ FindIdle /\ SideIdle

NextMouse ==
    \/ \E p \in MousePoints : MouseMove(p[1], p[2])
    \/ \E vp \in MouseViewports : SpiceSetViewport(vp)

SpecMouse == InitMouse /\ [][NextMouse]_vars

----------------------------------------------------------------------------
(* runTesseract: the scan of the TSV table (296-354) *)

\* A text is the sequence of its characters.
Hello == <<"H", "e", "l", "l", "o">>

World == <<"W", "o", "r", "l", "d">>

Blank == <<" ">>

Empty == <<>>

Space == " "

Newline == "\n"

Box(x, y, w, h) == [x |-> x, y |-> y, width |-> w, height |-> h]

OcrBoxes == {Box(0, 0, 50, 20), Box(55, 0, 50, 20), Box(10, 5, 20, 30)}

\* (block, paragraph, line) indices of the rows tried.
OcrKeys == {<<1, 1, 2>>, <<1, 2, 1>>, <<2, 1, 1>>}

\* One row of the table, after the Number(...) conversions of 303-313.  The
\* engine prints word number 0 and confidence -1 on rows above word level.
TsvRow(level, key, box, text) ==
    [level |-> level, block |-> key[1], paragraph |-> key[2], line |-> key[3],
     word |-> IF level = 5 THEN 1 ELSE 0,
     left |-> box.x, top |-> box.y, width |-> box.width, height |-> box.height,
     confidence |-> IF level = 5 THEN 96 ELSE 0 - 1,
     text |-> text]

\* Rows tried: word rows with a text (a blank is a text), line rows carrying
\* a text, and the rows the scan skips (no text; a paragraph row).
OcrRows ==
    {TsvRow(5, k, b, t) : k \in OcrKeys, b \in OcrBoxes, t \in {Hello, World, Blank}}
    \cup {TsvRow(4, k, Box(10, 5, 20, 30), Hello) : k \in OcrKeys}
    \cup {TsvRow(4, <<1, 1, 2>>, Box(0, 0, 50, 20), Empty),
          TsvRow(5, <<1, 1, 2>>, Box(0, 0, 50, 20), Empty),
          TsvRow(3, <<1, 1, 2>>, Box(0, 0, 50, 20), Hello)}

RECURSIVE TrimStart(_)
TrimStart(t) ==
    IF t # <<>> /\ Head(t) = Space THEN TrimStart(Tail(t)) ELSE t

RECURSIVE TrimEnd(_)
TrimEnd(t) ==
    IF t # <<>> /\ t[Len(t)] = Space THEN TrimEnd(SubSeq(t, 1, Len(t) - 1)) ELSE t

\* String.prototype.trim.
Trim(t) == TrimEnd(TrimStart(t))

\* The template literal `${block}-${paragraph}-${lineNum}` (330); distinct
\* triples of integers give distinct keys.
LineKey(r) == <<r.block, r.paragraph, r.line>>

\* Variant: lineMap.get never finds an entry.
LineIndex_Never(lm, key) ==
    0

\* lineMap.get(key): the position of the entry, 0 when there is none.
LineIndex(lm, key) ==
    IF \E i \in 1..Len(lm) : LineKey(lm[i]) = key
    THEN CHOOSE i \in 1..Len(lm) : LineKey(lm[i]) = key
    ELSE 0

\* words.push({...}) (318-326).
OCRWordOf(row) ==
    [text |-> row.text, bbox |-> Box(row.left, row.top, row.width, row.height),
     confidence |-> <<row.confidence, 1>>,
     block |-> row.block, paragraph |-> row.paragraph, line |-> row.line,
     word |-> row.word]

\* lineMap.set(key, {...}) (333-340): the first row of a key seeds the line.
\* A confidence is kept as <<numerator, denominator>>.
OCRLineOf(row) ==
    [text |-> row.text, bbox |-> Box(row.left, row.top, row.width, row.height),
     confidence |-> <<row.confidence, 1>>,
     block |-> row.block, paragraph |-> row.paragraph, line |-> row.line]

\* Variant: the line keeps its own box when a word is merged.
MergeBox_Keep(b, row) ==
    b

\* The bounding box after a word row is merged (343-348).
MergeBox(b, row) ==
    [x |-> Min(b.x, row.left),
     y |-> Min(b.y, row.top),
     width |-> Max(b.x + b.width, row.left + row.width) - Min(b.x, row.left),
     height |-> Max(b.y + b.height, row.top + row.height) - Min(b.y, row.top)]

\* A later word row of a key is merged into the line (342-351).
MergeWord(ln, row) ==
    [ln EXCEPT !.text = Trim(ln.text \o <<Space>> \o row.text),
               !.bbox = MergeBox(ln.bbox, row),
               !.confidence = <<ln.confidence[1] + row.confidence * ln.confidence[2],
                                2 * ln.confidence[2]>>]

\* What the scan holds: the word list, the line map in insertion order, and
\* (for the properties only) the keys whose line was seeded by a line row.
ScanState(ws, lm, seeds) == [words |-> ws, lineMap |-> lm, lineSeeds |-> seeds]

\* The line-map update of one row of level 4 or 5 (329-353).
LineMapUpdate(lm, row) ==
    IF LineIndex(lm, LineKey(row)) = 0
    THEN Append(lm, OCRLineOf(row))
    ELSE IF row.level = 5
    THEN [lm EXCEPT ![LineIndex(lm, LineKey(row))] = MergeWord(@, row)]
    ELSE lm

\* The body of the loop over the rows (299-354) for one row.
ScanStep(st, row) ==
    IF row.text = Empty
    THEN st
    ELSE ScanState(
           IF row.level = 5 THEN Append(st.words, OCRWordOf(row)) ELSE st.words,
           IF row.level \in {4, 5} THEN LineMapUpdate(st.lineMap, row) ELSE st.lineMap,
           IF row.level = 4 /\ LineIndex(st.lineMap, LineKey(row)) = 0
           THEN st.lineSeeds \cup {LineKey(row)} ELSE st.lineSeeds)

\* Variant: lines are ordered by block and line only.
Compare_NoParagraph(a, b) ==
    IF a.block = b.block THEN a.line - b.line ELSE a.block - b.block

\* The comparator handed to Array.prototype.sort (356-362).
Compare(a, b) ==
    IF a.block = b.block
    THEN (IF a.paragraph = b.paragraph THEN a.line - b.line
          ELSE a.paragraph - b.paragraph)
    ELSE a.block - b.block

\* Array.prototype.sort is stable: an element goes behind every element
\* that does not compare greater.
RECURSIVE InsertSorted(_, _)
InsertSorted(sorted, ln) ==
    IF sorted = <<>> THEN <<ln>>
    ELSE IF Compare(ln, Head(sorted)) < 0 THEN <<ln>> \o sorted
    ELSE <<Head(sorted)>> \o InsertSorted(Tail(sorted), ln)

RECURSIVE SortLines(_)
SortLines(lm) ==
    IF lm = <<>> THEN <<>>
    ELSE InsertSorted(SortLines(SubSeq(lm, 1, Len(lm) - 1)), lm[Len(lm)])

\* ocrLines.map((line) => line.text).join('\n') (364).
RECURSIVE JoinLines(_)
JoinLines(lns) ==
    IF lns = <<>> THEN <<>>
    ELSE IF Len(lns) = 1 THEN lns[1].text
    ELSE lns[1].text \o <<Newline>> \o JoinLines(Tail(lns))

\* One iteration of the loop over the rows.
ScanRow(row) ==
    /\ ocrPc = "scan"
    /\ rowsSeen < MaxRows
    /\ rowsSeen' = rowsSeen + 1
    /\ words' = ScanStep(ScanState(words, lineMap, lineSeeds), row).words
    /\ lineMap' = ScanStep(ScanState(words, lineMap, lineSeeds), row).lineMap
    /\ lineSeeds' = ScanStep(ScanState(words, lineMap, lineSeeds), row).lineSeeds
    /\ UNCHANGED <<ocrPc, ocrLines, ocrText>>
    /\ UNCHANGED <<sessVars, schedVars, startVars, eventVars, loopVars, closeVars>>
    /\ UNCHANGED <<snapVars, inputVars, miscVars, retryVars, mouseVars, findVars, sideVars>>

\* After the last row: sort the lines, join the text, return (356-374).
FinishOcr ==
    /\ ocrPc = "scan"
    /\ ocrPc' = "done"
    /\ ocrLines' = SortLines(lineMap)
    /\ ocrText' = JoinLines(SortLines(lineMap))
    /\ UNCHANGED <<words, lineMap, lineSeeds, rowsSeen>>
    /\ UNCHANGED <<sessVars, schedVars, startVars, eventVars, loopVars, closeVars>>
    /\ UNCHANGED <<snapVars, inputVars, miscVars, retryVars, mouseVars, findVars, sideVars>>

\* runTesseract after the header line was accepted (290-297).
InitOcr ==
    /\ backend = "none" /\ driver = "none" /\ readOnly = FALSE
    /\ drvViewport = NoViewport
    /\ SessionIdle /\ RetryIdle /\ MouseIdle /\ FindIdle /\ SideIdle
    /\ words = <<>> /\ lineMap = <<>> /\ lineSeeds = {} /\ rowsSeen = 0
    /\ ocrPc = "scan" /\ ocrLines = <<>> /\ ocrText = <<>>

NextOcr ==
    \/ \E row \in OcrRows : ScanRow(row)
    \/ FinishOcr

SpecOcr == InitOcr /\ [][NextOcr]_vars

----------------------------------------------------------------------------
(* findTextMatches (380-433) over an OCRResult of runTesseract *)

Welcome == <<"W", "e", "l", "c", "o", "m", "e">>

welcome == <<"w", "e", "l", "c", "o", "m", "e">>

back == <<"b", "a", "c", "k">>

\* Word rows of the table behind a searched OCRResult.
FindRows ==
    {TsvRow(5, k, Box(0, 0, 50, 20), t) :
        k \in {<<1, 1, 1>>, <<1, 1, 2>>}, t \in {welcome, Welcome, back}}

\* Literal queries tried; the last one spans two words of a line.
FindQueries == {Welcome, back, <<"e", " ", "b">>}

FindScopes == {"line", "word", "all"}

\* String.prototype.toLowerCase on the characters that occur.
LowerChar(c) ==
    IF c = "W" THEN "w" ELSE IF c = "H" THEN "h" ELSE c

toLowerCase(t) == [i \in 1..Len(t) |-> LowerChar(t[i])]

\* Variant: the text is compared as it is whatever matchCase says.
normalizeText_AsIs(value, matchCase) ==
    value

\* normalizeText (50-52).
normalizeText(value, matchCase) ==
    IF matchCase THEN value ELSE toLowerCase(value)

\* String.prototype.includes.
includes(hay, needle) ==
    \E i \in 0..(Len(hay) - Len(needle)) : SubSeq(hay, i + 1, i + Len(needle)) = needle

\* checkText for a string query (389-392); needle is the normalized query.
checkText(text, needle, matchCase) ==
    includes(normalizeText(text, matchCase), needle)

\* The OCRMatch pushed for a line (402-410) and for a word (418-427); a line
\* match has no word index (0 here).
LineMatch(ln) ==
    [text |-> ln.text, bbox |-> ln.bbox, confidence |-> ln.confidence, level |-> "line",
     block |-> ln.block, paragraph |-> ln.paragraph, line |-> ln.line, word |-> 0]

WordMatch(w) ==
    [text |-> w.text, bbox |-> w.bbox, confidence |-> w.confidence, level |-> "word",
     block |-> w.block, paragraph |-> w.paragraph, line |-> w.line, word |-> w.word]

\* for (const line of ocr.lines) if (checkText(line.text)) matches.push(...).
RECURSIVE PushLines(_, _, _, _)
PushLines(acc, lns, needle, matchCase) ==
    IF lns = <<>> THEN acc
    ELSE PushLines(IF checkText(Head(lns).text, needle, matchCase)
                   THEN Append(acc, LineMatch(Head(lns))) ELSE acc,
                   Tail(lns), needle, matchCase)

\* for (const word of ocr.words) if (checkText(word.text)) matches.push(...).
RECURSIVE PushWords(_, _, _, _)
PushWords(acc, ws, needle, matchCase) ==
    IF ws = <<>> THEN acc
    ELSE PushWords(IF checkText(Head(ws).text, needle, matchCase)
                   THEN Append(acc, WordMatch(Head(ws))) ELSE acc,
                   Tail(ws), needle, matchCase)

\* findTextMatches(ocr, query, {matchCase, scope}) for a string query.
findTextMatches(lns, ws, query, matchCase, scope) ==
    PushWords(
        IF scope \in {"line", "all"}
        THEN PushLines(<<>>, lns, normalizeText(query, matchCase), matchCase)
        ELSE <<>>,
        IF scope \in {"word", "all"} THEN ws ELSE <<>>,
        normalizeText(query, matchCase), matchCase)

\* The whole scan of a table: the loop of 299-354 over its rows.
RECURSIVE ScanAll(_, _)
ScanAll(st, rows) ==
    IF rows = <<>> THEN st ELSE ScanAll(ScanStep(st, Head(rows)), Tail(rows))

\* The tables of at most MaxFindRows rows.
FindTables == UNION {[1..n -> FindRows] : n \in 0..MaxFindRows}

\* session.findText (1135-1138): findTextMatches on the result of an OCR
\* pass, with the caller's query and options.
FindText(query, matchCase, scope) ==
    /\ ocrPc = "done"
    /\ findCall' = [query |-> query, matchCase |-> matchCase, scope |-> scope]
    /\ matches' = findTextMatches(ocrLines, words, query, matchCase, scope)
    /\ UNCHANGED <<sessVars, schedVars, startVars, eventVars, loopVars, closeVars>>
    /\ UNCHANGED <<snapVars, inputVars, miscVars, retryVars, mouseVars, ocrVars, sideVars>>

\* An OCRResult returned by runTesseract for some table.
InitFind ==
    /\ backend = "none" /\ driver = "none" /\ readOnly = FALSE
    /\ drvViewport = NoViewport
    /\ SessionIdle /\ RetryIdle /\ MouseIdle /\ FindIdle /\ SideIdle
    /\ \E table \in FindTables :
          /\ words = ScanAll(ScanState(<<>>, <<>>, {}), table).words
          /\ lineMap = ScanAll(ScanState(<<>>, <<>>, {}), table).lineMap
          /\ lineSeeds = ScanAll(ScanState(<<>>, <<>>, {}), table).lineSeeds
          /\ rowsSeen = Len(table)
    /\ ocrPc = "done"
    /\ ocrLines = SortLines(lineMap)
    /\ ocrText = JoinLines(SortLines(lineMap))

NextFind ==
    \E query \in FindQueries, matchCase \in BOOLEAN, scope \in FindScopes :
        FindText(query, matchCase, scope)

SpecFind == InitFind /\ [][NextFind]_vars

----------------------------------------------------------------------------
(* Temporary directories: resizeImageIfNeeded (160-178) and the staging of
   runTesseract (267-378) *)

\* maxWidth as runVisionPlan passes it; 0 stands for a missing or zero option
\* (`!maxWidth`).
MaxWidths == {0, 1024}

\* What readPngDimensions answers for the image: NoViewport is its null.
PngDims ==
    {NoViewport, [width |-> 800, height |-> 600], [width |-> 1024, height |-> 768],
     DEFAULT_VIEWPORT}

\* 161-163: the image goes through the resize commands.
NeedsResize(mw, dims) ==
    mw # 0 /\ dims # NoViewport /\ ~(dims.width <= mw)

\* Everything but the temporary-directory state.
tmpFrame ==
    <<sessVars, schedVars, startVars, eventVars, loopVars, closeVars, snapVars,
      inputVars, miscVars, retryVars, mouseVars, ocrVars, findVars, keyVars, planVars,
      lateVars>>

\* resizeImageIfNeeded up to `await mkdtemp` (161-164).
ResizeCall(mkOk) ==
    /\ resizePc = "idle"
    /\ IF ~NeedsResize(maxWidth, pngDims)
       THEN /\ resizePc' = "returned" /\ resizeResult' = "original"
            /\ UNCHANGED <<tmpDirs, tmpCreated>>
       ELSE IF mkOk
            THEN /\ tmpDirs' = tmpDirs \cup {"vmrc-vision"}
                 /\ tmpCreated' = tmpCreated \cup {"vmrc-vision"}
                 /\ resizePc' = "write"
                 /\ UNCHANGED resizeResult
            ELSE /\ resizePc' = "raised" /\ resizeResult' = "raise"
                 /\ UNCHANGED <<tmpDirs, tmpCreated>>
    /\ UNCHANGED <<maxWidth, pngDims, stagePc, stageResult, tmpFrame>>

\* One awaited step inside the try block (168-174): writeFile, magick, the
\* convert fallback, readFile.  A failure of any but magick leaves the block.
ResizeStep(ok) ==
    /\ resizePc \in {"write", "magick", "convert", "read"}
    /\ resizePc' = IF resizePc = "write" THEN (IF ok THEN "magick" ELSE "finally")
                   ELSE IF resizePc = "magick" THEN (IF ok THEN "read" ELSE "convert")
                   ELSE IF resizePc = "convert" THEN (IF ok THEN "read" ELSE "finally")
                   ELSE "finally"
    /\ resizeResult' = IF resizePc' = "finally"
                       THEN (IF resizePc = "read" /\ ok THEN "resized" ELSE "raise")
                       ELSE resizeResult
    /\ UNCHANGED <<tmpDirs, tmpCreated, maxWidth, pngDims, stagePc, stageResult, tmpFrame>>

\* Variant: the directory is removed on the success path only.
ResizeFinally_SuccessOnly ==
    /\ resizePc = "finally"
    /\ tmpDirs' = IF resizeResult = "resized" THEN tmpDirs \ {"vmrc-vision"} ELSE tmpDirs
    /\ resizePc' = IF resizeResult = "raise" THEN "raised" ELSE "returned"
    /\ UNCHANGED <<tmpCreated, maxWidth, pngDims, resizeResult, stagePc, stageResult, tmpFrame>>

\* The finally block (175-177), then the function settles.
ResizeFinally ==
    /\ resizePc = "finally"
    /\ tmpDirs' = tmpDirs \ {"vmrc-vision"}
    /\ resizePc' = IF resizeResult = "raise" THEN "raised" ELSE "returned"
    /\ UNCHANGED <<tmpCreated, maxWidth, pngDims, resizeResult, stagePc, stageResult, tmpFrame>>

\* runTesseract up to `await mkdtemp` (271).
StageCall(mkOk) ==
    /\ stagePc = "idle"
    /\ IF mkOk
       THEN /\ tmpDirs' = tmpDirs \cup {"vmrc-ocr"}
            /\ tmpCreated' = tmpCreated \cup {"vmrc-ocr"}
            /\ stagePc' = "write"
            /\ UNCHANGED stageResult
       ELSE /\ stagePc' = "raised" /\ stageResult' = "raise"
            /\ UNCHANGED <<tmpDirs, tmpCreated>>
    /\ UNCHANGED <<maxWidth, pngDims, resizePc, resizeResult, tmpFrame>>

\* `await writeFile` (274).
StageWrite(ok) ==
    /\ stagePc = "write"
    /\ stagePc' = IF ok THEN "tesseract" ELSE "finally"
    /\ stageResult' = IF ok THEN stageResult ELSE "raise"
    /\ UNCHANGED <<tmpDirs, tmpCreated, maxWidth, pngDims, resizePc, resizeResult, tmpFrame>>

\* `await execFileAsync('tesseract', ...)` and the rest of the try block
\* (289-374), which has no further await: a failed process or an output
\* without the TSV header raises, anything else returns the OCRResult.
StageTesseract(ok, header) ==
    /\ stagePc = "tesseract"
    /\ stagePc' = "finally"
    /\ stageResult' = IF ok /\ header THEN "result" ELSE "raise"
    /\ UNCHANGED <<tmpDirs, tmpCreated, maxWidth, pngDims, resizePc, resizeResult, tmpFrame>>

\* The finally block (375-377), then the function settles.
StageFinally ==
    /\ stagePc = "finally"
    /\ tmpDirs' = tmpDirs \ {"vmrc-ocr"}
    /\ stagePc' = IF stageResult = "raise" THEN "raised" ELSE "returned"
    /\ UNCHANGED <<tmpCreated, maxWidth, pngDims, resizePc, resizeResult, stageResult, tmpFrame>>

\* One image, one maxImageWidth option; both pipelines not yet called.
InitTmp ==
    /\ backend = "none" /\ driver = "none" /\ readOnly = FALSE
    /\ drvViewport = NoViewport
    /\ SessionIdle /\ RetryIdle /\ MouseIdle /\ OcrIdle /\ FindIdle /\ KeyIdle /\ PlanIdle
    /\ LateIdle
    /\ tmpDirs = {} /\ tmpCreated = {}
    /\ maxWidth \in MaxWidths /\ pngDims \in PngDims
    /\ resizePc = "idle" /\ resizeResult = "none"
    /\ stagePc = "idle" /\ stageResult = "none"

NextTmp ==
    \/ \E mkOk \in BOOLEAN : ResizeCall(mkOk)
    \/ \E ok \in BOOLEAN : ResizeStep(ok)
    \/ ResizeFinally
    \/ \E mkOk \in BOOLEAN : StageCall(mkOk)
    \/ \E ok \in BOOLEAN : StageWrite(ok)
    \/ \E ok \in BOOLEAN, header \in BOOLEAN : StageTesseract(ok, header)
    \/ StageFinally

SpecTmp == InitTmp /\ [][NextTmp]_vars

----------------------------------------------------------------------------
(* Key tables: KEY_ALIASES / keyToVirsh (597-631), QMP_KEY_ALIASES /
   keyToQmp (633-671) *)

\* Key names and characters are strings; "" is null (falsy like it).
NoKey == ""

Truthy(v) == v # NoKey

LowerLetters ==
    {"a", "b", "c", "d", "e", "f", "g", "h", "i", "j", "k", "l", "m", "n",
     "o", "p", "q", "r", "s", "t", "u", "v", "w", "x", "y", "z"}

Digits == {"0", "1", "2", "3", "4", "5", "6", "7", "8", "9"}

\* String.prototype.toLowerCase on the names tried: every name with a capital
\* is listed, any other name is its own lower case.
JsLower(k) ==
    IF k = "A" THEN "a" ELSE IF k = "B" THEN "b" ELSE IF k = "Enter" THEN "enter"
    ELSE IF k = "Shift" THEN "shift" ELSE IF k = "DOT" THEN "dot" ELSE k

UpperOf ==
    "a" :> "A" @@ "b" :> "B" @@ "c" :> "C" @@ "d" :> "D" @@ "e" :> "E" @@ "f"
    :> "F" @@ "g" :> "G" @@ "h" :> "H" @@ "i" :> "I" @@ "j" :> "J" @@ "k" :>
    "K" @@ "l" :> "L" @@ "m" :> "M" @@ "n" :> "N" @@ "o" :> "O" @@ "p" :> "P"
    @@ "q" :> "Q" @@ "r" :> "R" @@ "s" :> "S" @@ "t" :> "T" @@ "u" :> "U" @@
    "v" :> "V" @@ "w" :> "W" @@ "x" :> "X" @@ "y" :> "Y" @@ "z" :> "Z"

\* String.prototype.toUpperCase of a lower-cased one-character string; the
\* upper case of the sharp s is the two letters "SS".
JsUpper(c) ==
    IF c \in LowerLetters THEN UpperOf[c] ELSE IF c = "ß" THEN "SS" ELSE c

\* `char >= 'A' && char <= 'Z'` (623) compares strings: besides the capital
\* letters it holds of "SS", which sorts between "S" and "T".
BetweenAandZ(char) ==
    char \in {UpperOf[c] : c \in LowerLetters} \cup {"SS"}

\* Names every object inherits from Object.prototype and that are their own
\* lower case; an alias table is an object literal, so `table[name]` finds
\* them.
InheritedNames == {"constructor", "__proto__"}

\* What `table[name]` finds for an inherited name: a function or an object,
\* truthy and not a string.
Inherited == "[inherited]"

\* `table[normalized]` on an object literal.
Lookup(table, name) ==
    IF name \in DOMAIN table THEN table[name]
    ELSE IF name \in InheritedNames THEN Inherited
    ELSE NoKey

KEY_ALIASES ==
    [enter |-> "KEY_ENTER", return |-> "KEY_ENTER", tab |-> "KEY_TAB",
     esc |-> "KEY_ESC", escape |-> "KEY_ESC", backspace |-> "KEY_BACKSPACE",
     space |-> "KEY_SPACE", up |-> "KEY_UP", down |-> "KEY_DOWN",
     left |-> "KEY_LEFT", right |-> "KEY_RIGHT", shift |-> "KEY_LEFTSHIFT",
     ctrl |-> "KEY_LEFTCTRL", control |-> "KEY_LEFTCTRL", alt |-> "KEY_LEFTALT",
     meta |-> "KEY_LEFTMETA"]

VirshPunct ==
    "." :> "KEY_DOT" @@ "-" :> "KEY_MINUS" @@ "=" :> "KEY_EQUAL"
    @@ "/" :> "KEY_SLASH" @@ "," :> "KEY_COMMA"

\* keyToVirsh (616-631).
keyToVirsh(key) ==
    IF ~Truthy(key) THEN NoKey
    ELSE LET normalized == JsLower(key)
             char == JsUpper(normalized)
         IN  IF Truthy(Lookup(KEY_ALIASES, normalized))
             THEN Lookup(KEY_ALIASES, normalized)
             ELSE IF Len(normalized) = 1
                  THEN IF BetweenAandZ(char) THEN "KEY_" \o char
                       ELSE IF char \in Digits THEN "KEY_" \o char
                       ELSE IF char \in DOMAIN VirshPunct THEN VirshPunct[char]
                       ELSE NoKey
                  ELSE NoKey

QMP_KEY_ALIASES ==
    [enter |-> "ret", return |-> "ret", tab |-> "tab", esc |-> "esc",
     escape |-> "esc", backspace |-> "backspace", space |-> "spc", up |-> "up",
     down |-> "down", left |-> "left", right |-> "right", shift |-> "shift",
     ctrl |-> "ctrl", control |-> "ctrl", alt |-> "alt", meta |-> "meta",
     dot |-> "dot", minus |-> "minus", equal |-> "equal", slash |-> "slash",
     comma |-> "comma"]
    @@ "." :> "dot" @@ "-" :> "minus" @@ "=" :> "equal" @@ "/" :> "slash"
    @@ "," :> "comma"

\* keyToQmp (662-671).
keyToQmp(key) ==
    IF ~Truthy(key) THEN NoKey
    ELSE LET normalized == JsLower(key)
         IN  IF Truthy(Lookup(QMP_KEY_ALIASES, normalized))
             THEN Lookup(QMP_KEY_ALIASES, normalized)
             ELSE IF Len(normalized) = 1 /\ normalized \in LowerLetters \cup Digits
                  THEN normalized
                  ELSE NoKey

----------------------------------------------------------------------------
(* SpiceVirshDriver.sendInput, cases 'key', 'text', 'clipboard' (869-918,
   984-987) and setClipboard (994-1015) *)

KeyNames == {"a", "A", "Enter", "enter", "dot", "f1", "constructor", "ß"}

ModifierLists == {<<>>, <<"ctrl">>, <<"Shift", "hyper">>, <<"alt", "constructor">>}

TextChars == {"a", "B", " ", "/", "ß"}

Texts == UNION {[1..n -> TextChars] : n \in 0..MaxText}

KeyEvent(key, action, modifiers) ==
    [type |-> "key", key |-> key, action |-> action, modifiers |-> modifiers, text |-> <<>>]

TextEvent(type, text) ==
    [type |-> type, key |-> NoKey, action |-> "none", modifiers |-> <<>>, text |-> text]

\* `.filter(Boolean)` over the mapped modifier names.
FilterBoolean(list) == SelectSeq(list, Truthy)

Press(key, down) == [key |-> key, down |-> down]

\* keyEvents (880-882): modifiers then the key going down, the key then the
\* modifiers going up.
KeyEventsOf(ev) ==
    LET key == keyToQmp(ev.key)
        modifierKeys == FilterBoolean([i \in 1..Len(ev.modifiers) |-> keyToQmp(ev.modifiers[i])])
    IN  IF ev.action = "down"
        THEN [i \in 1..Len(modifierKeys) |-> Press(modifierKeys[i], TRUE)]
             \o <<Press(key, TRUE)>>
        ELSE <<Press(key, FALSE)>>
             \o [i \in 1..Len(modifierKeys) |-> Press(modifierKeys[i], FALSE)]

\* The arguments of the fallback `virsh send-key` (888-894).
FallbackKeysOf(ev) ==
    LET fallbackMods == FilterBoolean([i \in 1..Len(ev.modifiers) |-> keyToVirsh(ev.modifiers[i])])
    IN  [i \in 1..Len(fallbackMods) |-> Press(fallbackMods[i], TRUE)]
        \o <<Press(keyToVirsh(ev.key), TRUE)>>

\* What the operation now inside runWithRetry sends.
Payload ==
    IF keyCall.type = "key"
    THEN IF keyPc = "qmp" THEN KeyEventsOf(keyCall) ELSE FallbackKeysOf(keyCall)
    ELSE IF keyPc = "qmp"
         THEN <<Press(keyToQmp(keyCall.text[charIdx]), TRUE),
                Press(keyToQmp(keyCall.text[charIdx]), FALSE)>>
         ELSE <<Press(keyToVirsh(keyCall.text[charIdx]), TRUE)>>

\* execFile refuses an argument that is not a string (the legacy path passes
\* the key as an argument of its own); the QMP path serialises its payload and
\* runs whatever the payload was.
CanSucceed ==
    ~(keyPc = "legacy" /\ \E i \in 1..Len(Payload) : Payload[i].key = Inherited)

Sent(via, keys, calls, ok) == [via |-> via, keys |-> keys, calls |-> calls, ok |-> ok]

\* Entering runWithRetry(operation, label): `let attempt = 0`.
StartWrapper(label) ==
    /\ retryPc' = "call" /\ attempt' = 0 /\ opCalls' = 0 /\ retryLabel' = label
    /\ UNCHANGED <<inputRetryCount, inputRetryDelayMs, retryWarnings, retryReturned, retryThrown>>

LeaveWrapper ==
    /\ retryPc' = "idle"
    /\ UNCHANGED <<inputRetryCount, inputRetryDelayMs, retryLabel, attempt, opCalls,
                   retryWarnings, retryReturned, retryThrown>>

\* The first index from i on among mapped, the indices of the characters the
\* loop does not skip, or Len(text) + 1.
NextIdx(mapped, text, i) ==
    LET rest == {j \in i..Len(text) : j \in mapped}
    IN  IF rest = {} THEN Len(text) + 1
        ELSE CHOOSE j \in rest : \A k \in rest : j <= k

TextMapped(char) == Truthy(keyToQmp(char)) \/ Truthy(keyToVirsh(char))

VirshMapped(char) == Truthy(keyToVirsh(char))

\* The loop of case 'text' (904-917) from character i up to its next await,
\* or to its end.
TextLoop(text, i) ==
    LET j == NextIdx({k \in 1..Len(text) : TextMapped(text[k])}, text, i)
    IN  /\ charIdx' = j
        /\ IF j > Len(text)
           THEN keyPc' = "resolved" /\ LeaveWrapper
           ELSE IF Truthy(keyToQmp(text[j]))
                THEN keyPc' = "qmp" /\ StartWrapper("QMP input")
                ELSE keyPc' = "legacy" /\ StartWrapper("virsh send-key")

\* Everything but the key-input state and the retry wrapper.
keyFrame ==
    <<sessVars, schedVars, startVars, eventVars, loopVars, closeVars, snapVars,
      inputVars, miscVars, mouseVars, ocrVars, findVars, tmpVars, planVars, lateVars>>

\* sendInput(event) up to its first await (869-884, 903-906, 984-985).
SpiceSendInput(ev) ==
    /\ keyPc = "idle"
    /\ keyCall' = ev
    /\ IF ev.type = "key"
       THEN /\ charIdx' = 0
            /\ IF ~Truthy(keyToQmp(ev.key))
               THEN keyWarned' = TRUE /\ keyPc' = "resolved" /\ LeaveWrapper
               ELSE UNCHANGED keyWarned /\ keyPc' = "qmp" /\ StartWrapper("QMP input")
       ELSE IF ev.type = "text"
       THEN TextLoop(ev.text, 1) /\ UNCHANGED keyWarned
       ELSE /\ keyPc' = "qga" /\ charIdx' = 0
            /\ LeaveWrapper /\ UNCHANGED keyWarned
    /\ UNCHANGED <<dispatched, keyError, keyFrame>>

\* setClipboard(text) up to `await this.runQga` (994-996).
SpiceSetClipboard(text) ==
    /\ keyPc = "idle"
    /\ keyCall' = TextEvent("setClipboard", text)
    /\ keyPc' = "qga" /\ charIdx' = 0
    /\ LeaveWrapper
    /\ UNCHANGED <<dispatched, keyError, keyWarned, keyFrame>>

\* runWithRetry has settled inside case 'key' (884-899) or inside the loop of
\* case 'text' (907, 912-915).  dispatched gets the command with the number
\* of times it ran.
WrapperSettled ==
    /\ keyPc \in {"qmp", "legacy"}
    /\ retryPc \in {"returned", "thrown"}
    /\ dispatched' = Append(dispatched,
                            Sent(IF keyPc = "qmp" THEN "qmp" ELSE "send-key",
                                 Payload, opCalls, retryPc = "returned"))
    /\ IF retryPc = "returned"
       THEN IF keyCall.type = "key"
            THEN keyPc' = "resolved" /\ LeaveWrapper /\ UNCHANGED <<charIdx, keyError>>
            ELSE TextLoop(keyCall.text, charIdx + 1) /\ UNCHANGED keyError
       ELSE IF /\ keyCall.type = "key" /\ keyPc = "qmp"
               /\ keyCall.action = "down" /\ Truthy(keyToVirsh(keyCall.key))
            THEN /\ keyPc' = "legacy" /\ StartWrapper("virsh send-key")
                 /\ UNCHANGED <<charIdx, keyError>>
            ELSE /\ keyPc' = "rejected" /\ keyError' = keyPc
                 /\ LeaveWrapper /\ UNCHANGED charIdx
    /\ UNCHANGED <<keyCall, keyWarned, keyFrame>>

\* The fallback loop of setClipboard (1010-1014) from character i up to its
\* next await, or to its end.
InjectLoop(text, i) ==
    LET j == NextIdx({k \in 1..Len(text) : VirshMapped(text[k])}, text, i)
    IN  /\ charIdx' = j
        /\ keyPc' = IF j > Len(text) THEN "resolved" ELSE "inject"

\* `await this.runQga(...)` has settled (996-1008).
QgaSettled(ok) ==
    /\ keyPc = "qga"
    /\ dispatched' = Append(dispatched, Sent("qga", <<>>, 1, ok))
    /\ IF ok
       THEN keyPc' = "resolved" /\ UNCHANGED <<charIdx, keyWarned>>
       ELSE InjectLoop(keyCall.text, 1) /\ keyWarned' = TRUE
    /\ UNCHANGED <<keyCall, keyError, retryVars, keyFrame>>

\* `await this.runVirsh(['send-key', ...])` has settled (1013): no retry, a
\* failure leaves setClipboard.
InjectSettled(ok) ==
    /\ keyPc = "inject"
    /\ dispatched' = Append(dispatched,
                            Sent("send-key", <<Press(keyToVirsh(keyCall.text[charIdx]), TRUE)>>,
                                 1, ok))
    /\ IF ok
       THEN InjectLoop(keyCall.text, charIdx + 1) /\ UNCHANGED keyError
       ELSE keyPc' = "rejected" /\ keyError' = "inject" /\ UNCHANGED charIdx
    /\ UNCHANGED <<keyCall, keyWarned, retryVars, keyFrame>>

\* A SPICE driver with some retry options, before any input call.
InitKeys ==
    /\ backend = "spice" /\ driver = "spice" /\ readOnly = FALSE
    /\ drvViewport = DEFAULT_VIEWPORT
    /\ SessionIdle /\ MouseIdle /\ OcrIdle /\ FindIdle /\ TmpIdle /\ KeyIdle /\ PlanIdle
    /\ LateIdle
    /\ inputRetryCount \in 0..MaxRetry
    /\ inputRetryDelayMs \in RetryDelays
    /\ retryLabel = "QMP input"
    /\ retryPc = "idle" /\ attempt = 0 /\ opCalls = 0
    /\ retryWarnings = 0 /\ retryReturned = 0 /\ retryThrown = 0

NextKeys ==
    \/ \E key \in KeyNames, action \in {"down", "up"}, modifiers \in ModifierLists :
          SpiceSendInput(KeyEvent(key, action, modifiers))
    \/ \E type \in {"text", "clipboard"}, text \in Texts :
          SpiceSendInput(TextEvent(type, text))
    \/ \E text \in Texts : SpiceSetClipboard(text)
    \/ \E ok \in BOOLEAN : (ok => CanSucceed) /\ keyPc \in {"qmp", "legacy"} /\ RetryAttempt(ok)
    \/ keyPc \in {"qmp", "legacy"} /\ RetryWake
    \/ WrapperSettled
    \/ \E ok \in BOOLEAN : QgaSettled(ok)
    \/ \E ok \in BOOLEAN : InjectSettled(ok)

SpecKeys == InitKeys /\ [][NextKeys]_vars

----------------------------------------------------------------------------
(* Vision plan parsing: extractJsonFromText (65-74), normalizeInputEvent
   (76-116), parseVisionPlan (118-158) *)

\* A text is a sequence of tokens with white space between them: a prose
\* word, the opening fence ```json, the closing fence ```, a brace, a
\* bracket, a colon, a comma, a quoted string, a number written in digits.
\* trim() changes nothing that the tokens show.
Token(t, v, n) == [t |-> t, v |-> v, n |-> n]

Word(w) == Token("word", w, 0)

Str(v) == Token("str", v, 0)

Num(n) == Token("num", "", n)

Sym(c) == Token(c, "", 0)

EndOfText == Token("end", "", 0)

TokenAt(toks, i) == IF i \in 1..Len(toks) THEN toks[i] ELSE EndOfText

\* "key": value, with a string or a number for a value.
Pair(key, value) == <<Str(key), Sym(":"), value>>

Comma == <<Sym(",")>>

Braced(inner) == <<Sym("{")>> \o inner \o <<Sym("}")>>

Bracketed(inner) == <<Sym("[")>> \o inner \o <<Sym("]")>>

\* {"type":"click","x":10,"y":20}
ClickFragment ==
    Braced(Pair("type", Str("click")) \o Comma \o Pair("x", Num(10)) \o Comma
           \o Pair("y", Num(20)))

\* {"type":"type","text":"hi"}
TypeFragment ==
    Braced(Pair("type", Str("type")) \o Comma \o Pair("text", Str("hi")))

\* {type: key, key: "Enter"}, the tag written without quotes.
KeyFragment ==
    Braced(<<Word("type"), Sym(":"), Word("key"), Sym(","), Word("key"), Sym(":"),
             Str("Enter")>>)

TextAction ==
    Braced(Pair("type", Str("text")) \o Comma \o Pair("text", Str("hi")))

\* {"summary":"ok","actions":[{"type":"text","text":"hi"}]}
GoodPlan ==
    Braced(Pair("summary", Str("ok")) \o Comma
           \o <<Str("actions"), Sym(":")>> \o Bracketed(TextAction))

FencedPlan == <<Sym("~~~json")>> \o GoodPlan \o <<Sym("~~~")>>

\* {"type":"mouse-scroll","deltaX":1,"deltaY":"2"}
ScrollAction ==
    Braced(Pair("type", Str("mouse-scroll")) \o Comma \o Pair("deltaX", Num(1))
           \o Comma \o Pair("deltaY", Str("2")))

\* {"type":"key","key":"a","action":"down","modifiers":["ctrl",1]}
KeyAction ==
    Braced(Pair("type", Str("key")) \o Comma \o Pair("key", Str("a")) \o Comma
           \o Pair("action", Str("down")) \o Comma
           \o <<Str("modifiers"), Sym(":")>> \o Bracketed(<<Str("ctrl"), Sym(","), Num(1)>>))

\* {"type":"mouse-button","button":"left","action":"up","x":5}
ButtonAction ==
    Braced(Pair("type", Str("mouse-button")) \o Comma \o Pair("button", Str("left"))
           \o Comma \o Pair("action", Str("up")) \o Comma \o Pair("x", Num(5)))

\* {"type":"warp","x":1}: no such event type.
UnknownAction ==
    Braced(Pair("type", Str("warp")) \o Comma \o Pair("x", Num(1)))

\* {"actions":[<scroll>,<unknown>,<key>,7,<button>],"summary":3}
MixedPlan ==
    Braced(<<Str("actions"), Sym(":")>>
           \o Bracketed(ScrollAction \o Comma \o UnknownAction \o Comma \o KeyAction
                        \o Comma \o <<Num(7)>> \o Comma \o ButtonAction)
           \o Comma \o Pair("summary", Num(3)))

\* {"summary":"ok","actions":"none"}
NoListPlan ==
    Braced(Pair("summary", Str("ok")) \o Comma \o Pair("actions", Str("none")))

\* The pieces a model's answer is put together from.
Chunks ==
    {<<Word("Sure")>>, <<Sym("~~~json")>>, <<Sym("~~~")>>, <<Sym("{")>>, <<Sym("}")>>,
     ClickFragment, TypeFragment, KeyFragment, GoodPlan, FencedPlan, MixedPlan,
     NoListPlan}

RECURSIVE Flatten(_)
Flatten(chunks) ==
    IF chunks = <<>> THEN <<>> ELSE Head(chunks) \o Flatten(Tail(chunks))

\* Answers of up to MaxChunks pieces.
PlanTexts ==
    {Flatten(c) : c \in UNION {[1..n -> Chunks] : n \in 0..MaxChunks}}

----------------------------------------------------------------------------
(* JSON values and JSON.parse on tokens *)

JValue(k, s, n, items) == [k |-> k, s |-> s, n |-> n, items |-> items]

JUndef == JValue("undef", "", 0, <<>>)

JNull == JValue("null", "", 0, <<>>)

JStr(s) == JValue("str", s, 0, <<>>)

JNum(n) == JValue("num", "", n, <<>>)

JArr(items) == JValue("arr", "", 0, items)

\* An object is the list of its members [key, val] in source order.
JObj(members) == JValue("obj", "", 0, members)

Member(key, val) == [key |-> key, val |-> val]

\* obj[key]: the last member of that name wins; undefined when obj is not an
\* object or has no such member.
Get(obj, key) ==
    LET at == {i \in 1..Len(obj.items) : obj.items[i].key = key}
    IN  IF obj.k # "obj" \/ at = {} THEN JUndef
        ELSE obj.items[CHOOSE i \in at : \A j \in at : j <= i].val

SyntaxError == [ok |-> FALSE, val |-> JUndef, next |-> 0]

Parsed(val, next) == [ok |-> TRUE, val |-> val, next |-> next]

RECURSIVE ParseValue(_, _)
RECURSIVE ParseElements(_, _, _)
RECURSIVE ParseMembers(_, _, _)

\* One JSON value starting at token i; next is the token after it.
ParseValue(toks, i) ==
    LET tk == TokenAt(toks, i)
    IN  IF tk.t = "str" THEN Parsed(JStr(tk.v), i + 1)
        ELSE IF tk.t = "num" THEN Parsed(JNum(tk.n), i + 1)
        ELSE IF tk.t = "null" THEN Parsed(JNull, i + 1)
        ELSE IF tk.t = "["
             THEN IF TokenAt(toks, i + 1).t = "]" THEN Parsed(JArr(<<>>), i + 2)
                  ELSE ParseElements(toks, i + 1, <<>>)
        ELSE IF tk.t = "{"
             THEN IF TokenAt(toks, i + 1).t = "}" THEN Parsed(JObj(<<>>), i + 2)
                  ELSE ParseMembers(toks, i + 1, <<>>)
        ELSE SyntaxError

\* The elements of an array from token i on, acc being those before.
ParseElements(toks, i, acc) ==
    LET r == ParseValue(toks, i)
        sep == TokenAt(toks, r.next)
    IN  IF ~r.ok THEN SyntaxError
        ELSE IF sep.t = "]" THEN Parsed(JArr(Append(acc, r.val)), r.next + 1)
        ELSE IF sep.t = "," THEN ParseElements(toks, r.next + 1, Append(acc, r.val))
        ELSE SyntaxError

\* The members of an object from token i on, acc being those before.
ParseMembers(toks, i, acc) ==
    IF TokenAt(toks, i).t # "str" \/ TokenAt(toks, i + 1).t # ":" THEN SyntaxError
    ELSE LET r == ParseValue(toks, i + 2)
             sep == TokenAt(toks, r.next)
             all == Append(acc, Member(TokenAt(toks, i).v, r.val))
         IN  IF ~r.ok THEN SyntaxError
             ELSE IF sep.t = "}" THEN Parsed(JObj(all), r.next + 1)
             ELSE IF sep.t = "," THEN ParseMembers(toks, r.next + 1, all)
             ELSE SyntaxError

\* JSON.parse(json): one value and nothing after it.
JsonParse(json) ==
    LET r == ParseValue(json, 1)
    IN  IF r.ok /\ r.next = Len(json) + 1 THEN r ELSE SyntaxError

----------------------------------------------------------------------------
(* extractJsonFromText, normalizeInputEvent, the salvage pass *)

\* The fence tokens: ~~~ stands for the three backquotes.
IsFence(tk) == tk.t \in {"~~~json", "~~~"}

SetMinimum(S) == CHOOSE i \in S : \A j \in S : i <= j

SetMaximum(S) == CHOOSE i \in S : \A j \in S : j <= i

NoJson == [found |-> FALSE, json |-> <<>>]

\* Variant: the braces are looked for before the fence.
extractJsonFromText_BracesFirst(text) ==
    LET opens == {i \in 1..Len(text) :
                     text[i].t = "~~~json" /\ \E j \in (i + 1)..Len(text) : IsFence(text[j])}
        lbraces == {i \in 1..Len(text) : text[i].t = "{"}
        rbraces == {i \in 1..Len(text) : text[i].t = "}"}
    IN  IF lbraces # {} /\ rbraces # {} /\ SetMaximum(rbraces) > SetMinimum(lbraces)
        THEN [found |-> TRUE,
              json |-> SubSeq(text, SetMinimum(lbraces), SetMaximum(rbraces))]
        ELSE IF opens # {}
        THEN LET i == SetMinimum(opens)
                 j == SetMinimum({k \in (i + 1)..Len(text) : IsFence(text[k])})
             IN  [found |-> TRUE, json |-> SubSeq(text, i + 1, j - 1)]
        ELSE NoJson

\* extractJsonFromText (65-74).  The fence pattern matches from the first
\* ```json that has three backquotes somewhere after it up to the nearest
\* such three backquotes, which may be those of another ```json.
extractJsonFromText(text) ==
    LET opens == {i \in 1..Len(text) :
                     text[i].t = "~~~json" /\ \E j \in (i + 1)..Len(text) : IsFence(text[j])}
        lbraces == {i \in 1..Len(text) : text[i].t = "{"}
        rbraces == {i \in 1..Len(text) : text[i].t = "}"}
    IN  IF opens # {}
        THEN LET i == SetMinimum(opens)
                 j == SetMinimum({k \in (i + 1)..Len(text) : IsFence(text[k])})
             IN  [found |-> TRUE, json |-> SubSeq(text, i + 1, j - 1)]
        ELSE IF lbraces # {} /\ rbraces # {} /\ SetMaximum(rbraces) > SetMinimum(lbraces)
        THEN [found |-> TRUE,
              json |-> SubSeq(text, SetMinimum(lbraces), SetMaximum(rbraces))]
        ELSE NoJson

\* An InputEvent: its tag and, for every field of the union, the value it
\* holds (JUndef when the field is absent).
EventOf(type) ==
    [type |-> type, key |-> JUndef, action |-> JUndef, modifiers |-> JUndef,
     text |-> JUndef, x |-> JUndef, y |-> JUndef, button |-> JUndef,
     deltaX |-> JUndef, deltaY |-> JUndef]

\* null
NoEvent == EventOf("null")

DigitChars == <<"0", "1", "2", "3", "4", "5", "6", "7", "8", "9">>

RECURSIVE NumStr(_)
NumStr(n) ==
    IF n < 10 THEN DigitChars[n + 1]
    ELSE NumStr(n \div 10) \o DigitChars[(n % 10) + 1]

\* String(v) for the entries tried in a modifiers array: strings, numbers,
\* objects.
JsString(v) ==
    IF v.k = "str" THEN v.s
    ELSE IF v.k = "num" THEN NumStr(v.n)
    ELSE "[object Object]"

IsOneOf(v, names) == v.k = "str" /\ v.s \in names

\* normalizeInputEvent (76-116).
normalizeInputEvent(value) ==
    LET type == Get(value, "type")
        field(name) == Get(value, name)
    IN  IF value.k \notin {"obj", "arr"} \/ type.k # "str" THEN NoEvent
        ELSE IF type.s = "key"
             THEN IF field("key").k = "str" /\ IsOneOf(field("action"), {"down", "up"})
                  THEN [EventOf("key") EXCEPT
                           !.key = field("key"), !.action = field("action"),
                           !.modifiers =
                               IF field("modifiers").k = "arr"
                               THEN JArr([i \in 1..Len(field("modifiers").items) |->
                                             JStr(JsString(field("modifiers").items[i]))])
                               ELSE JUndef]
                  ELSE NoEvent
        ELSE IF type.s = "text"
             THEN IF field("text").k = "str"
                  THEN [EventOf("text") EXCEPT !.text = field("text")]
                  ELSE NoEvent
        ELSE IF type.s = "mouse-move"
             THEN IF field("x").k = "num" /\ field("y").k = "num"
                  THEN [EventOf("mouse-move") EXCEPT !.x = field("x"), !.y = field("y")]
                  ELSE NoEvent
        ELSE IF type.s = "mouse-button"
             THEN IF /\ IsOneOf(field("button"), {"left", "middle", "right"})
                     /\ IsOneOf(field("action"), {"down", "up"})
                  THEN [EventOf("mouse-button") EXCEPT
                           !.button = field("button"), !.action = field("action"),
                           !.x = IF field("x").k = "num" THEN field("x") ELSE JUndef,
                           !.y = IF field("y").k = "num" THEN field("y") ELSE JUndef]
                  ELSE NoEvent
        ELSE IF type.s = "mouse-scroll"
             THEN IF field("deltaX").k = "num" \/ field("deltaY").k = "num"
                  THEN [EventOf("mouse-scroll") EXCEPT
                           !.deltaX = field("deltaX"), !.deltaY = field("deltaY")]
                  ELSE NoEvent
        ELSE IF type.s = "clipboard"
             THEN IF field("text").k = "str"
                  THEN [EventOf("clipboard") EXCEPT !.text = field("text")]
                  ELSE NoEvent
        ELSE NoEvent

\* Everything but the plan parser's state.
planFrame ==
    <<sessVars, schedVars, startVars, eventVars, loopVars, closeVars, snapVars,
      inputVars, miscVars, retryVars, mouseVars, ocrVars, findVars, tmpVars, keyVars,
      lateVars>>

\* rawActions.map(normalizeInputEvent).filter(Boolean) (150-152).
NormalizeAll(rawActions) ==
    SelectSeq([i \in 1..Len(rawActions) |-> normalizeInputEvent(rawActions[i])],
              LAMBDA ev : ev.type # "null")

\* Names a pattern such as /"?x"?\s*:/i finds a match in: the names of
\* the texts tried that end in the pattern's word, whatever the case.
NamesEnding(word) ==
    IF word = "x" THEN {"x", "deltaX"}
    ELSE IF word = "y" THEN {"y", "key", "deltaY"}
    ELSE {word}

IsName(tk, word) == tk.t \in {"str", "word"} /\ tk.v \in NamesEnding(word)

\* /"?type"?\s*:\s*"?click"?/i (and likewise type, key) matches at token i.
TagAt(toks, i, action) ==
    /\ IsName(TokenAt(toks, i), "type")
    /\ TokenAt(toks, i + 1).t = ":"
    /\ TokenAt(toks, i + 2).t \in {"str", "word"}
    /\ TokenAt(toks, i + 2).v = action

HasTag(toks, action) == \E i \in 1..Len(toks) : TagAt(toks, i, action)

\* text.match(actionRegex) (124-125): for every closing brace, the stretch
\* from the first opening brace after the previous closing brace that has a
\* click, type or key tag behind it; in text order.
SalvageMatches(text) ==
    LET closes == {e \in 1..Len(text) : text[e].t = "}"}
        from(e) == IF {c \in closes : c < e} = {} THEN 1
                   ELSE SetMaximum({c \in closes : c < e}) + 1
        starts(e) == {s \in from(e)..(e - 1) :
                         /\ text[s].t = "{"
                         /\ \E i \in (s + 1)..(e - 3), action \in {"click", "type", "key"} :
                               TagAt(text, i, action)}
        ends == {e \in closes : starts(e) # {}}
        RECURSIVE Collect(_)
        Collect(todo) ==
            IF todo = {} THEN <<>>
            ELSE LET e == SetMinimum(todo)
                 IN  <<SubSeq(text, SetMinimum(starts(e)), e)>> \o Collect(todo \ {e})
    IN  Collect(ends)

\* match.match(/"?x"?\s*:\s*(\d+)/i)?.[1] as a number; found is FALSE for NaN.
DigitsAfter(match, word) ==
    LET at == {i \in 1..Len(match) :
                  /\ IsName(match[i], word)
                  /\ TokenAt(match, i + 1).t = ":"
                  /\ TokenAt(match, i + 2).t = "num"}
    IN  IF at = {} THEN [found |-> FALSE, n |-> 0]
        ELSE [found |-> TRUE, n |-> match[SetMinimum(at) + 2].n]

\* match.match(/"?text"?\s*:\s*"([^"]+)"/i)?.[1]; "" when there is none.
QuotedAfter(match, word) ==
    LET at == {i \in 1..Len(match) :
                  /\ IsName(match[i], word)
                  /\ TokenAt(match, i + 1).t = ":"
                  /\ TokenAt(match, i + 2).t = "str"
                  /\ TokenAt(match, i + 2).v # ""}
    IN  IF at = {} THEN "" ELSE match[SetMinimum(at) + 2].v

\* The events one match contributes (127-143).
SalvageOne(match) ==
    IF HasTag(match, "click")
    THEN LET x == DigitsAfter(match, "x")
             y == DigitsAfter(match, "y")
         IN  IF x.found /\ y.found
             THEN <<[EventOf("mouse-move") EXCEPT !.x = JNum(x.n), !.y = JNum(y.n)],
                    [EventOf("mouse-button") EXCEPT !.button = JStr("left"),
                        !.action = JStr("down"), !.x = JNum(x.n), !.y = JNum(y.n)],
                    [EventOf("mouse-button") EXCEPT !.button = JStr("left"),
                        !.action = JStr("up"), !.x = JNum(x.n), !.y = JNum(y.n)]>>
             ELSE <<>>
    ELSE IF HasTag(match, "type")
    THEN IF QuotedAfter(match, "text") # ""
         THEN <<[EventOf("text") EXCEPT !.text = JStr(QuotedAfter(match, "text"))]>>
         ELSE <<>>
    ELSE IF QuotedAfter(match, "key") # ""
         THEN <<[EventOf("key") EXCEPT !.key = JStr(QuotedAfter(match, "key")),
                    !.action = JStr("down")]>>
         ELSE <<>>

RECURSIVE SalvageAll(_)
SalvageAll(found) ==
    IF found = <<>> THEN <<>> ELSE SalvageOne(Head(found)) \o SalvageAll(Tail(found))

\* What the SyntaxError's message shows of the text JSON.parse was given:
\* nothing, or its first tokens, as the engine's version has it.
ErrorTexts(json) ==
    {SubSeq(json, 1, n) : n \in 0..Min(Len(json), 2)}

\* parseVisionPlan(text) (118-158); shown is what the error raised at 146
\* quotes of the text.
parseVisionPlan(shown) ==
    LET found == extractJsonFromText(planText)
        json == IF found.found THEN found.json ELSE planText
        parsed == JsonParse(json)
        fallbackActions == SalvageAll(SalvageMatches(planText))
    IN  /\ planPc = "idle"
        /\ shown \in ErrorTexts(json)
        /\ IF parsed.ok
           THEN /\ planPc' = "parsed"
                /\ planSummary' = IF Get(parsed.val, "summary").k = "str"
                                  THEN Get(parsed.val, "summary") ELSE JUndef
                /\ planActions' = IF Get(parsed.val, "actions").k = "arr"
                                  THEN NormalizeAll(Get(parsed.val, "actions").items)
                                  ELSE <<>>
                /\ planRaw' = planText
                /\ UNCHANGED planError
           ELSE IF fallbackActions # <<>>
           THEN /\ planPc' = "salvaged"
                /\ planSummary' = JStr("Fallback parsed actions from non-JSON response")
                /\ planActions' = fallbackActions
                /\ planRaw' = planText
                /\ UNCHANGED planError
           ELSE /\ planPc' = "thrown"
                /\ planError' = shown
                /\ UNCHANGED <<planSummary, planActions, planRaw>>
        /\ UNCHANGED <<planText, planFrame>>

\* An answer of the model, not parsed yet.
InitPlan ==
    /\ backend = "none" /\ driver = "none" /\ readOnly = FALSE
    /\ drvViewport = NoViewport
    /\ SessionIdle /\ RetryIdle /\ MouseIdle /\ OcrIdle /\ FindIdle /\ TmpIdle /\ KeyIdle
    /\ LateIdle
    /\ planText \in PlanTexts
    /\ planPc = "idle"
    /\ planSummary = JUndef /\ planActions = <<>> /\ planRaw = <<>> /\ planError = <<>>

NextPlan ==
    \E shown \in UNION {ErrorTexts(t) : t \in {planText, extractJsonFromText(planText).json}} :
        parseVisionPlan(shown)

SpecPlan == InitPlan /\ [][NextPlan]_vars

----------------------------------------------------------------------------
(* SpiceVirshDriver.sendInput, cases 'mouse-move' and 'mouse-button'
   (920-970), for callers whose calls may overlap *)

\* The callers; each makes one sendInput call.
Callers == {1, 2}

PtrPoints == {<<10, 20>>, <<30, 40>>}

PtrEvent(type, button, action, hasXY, x, y) ==
    [type |-> type, button |-> button, action |-> action, hasXY |-> hasXY,
     x |-> x, y |-> y]

NoPtrEvent == PtrEvent("none", "none", "none", FALSE, 0, 0)

\* mouse-move events, and mouse-button events with and without coordinates.
PointerEvents ==
    {PtrEvent("mouse-move", "none", "none", TRUE, p[1], p[2]) : p \in PtrPoints}
    \cup {PtrEvent("mouse-button", b, a, TRUE, p[1], p[2]) :
             b \in {"left", "right"}, a \in {"down", "up"}, p \in PtrPoints}
    \cup {PtrEvent("mouse-button", b, a, FALSE, 0, 0) :
             b \in {"left", "right"}, a \in {"down", "up"}}

\* What one command hands to the backend: absolute axis values, a relative
\* motion, a button change (QMP), or the button mask (HMP).
Command(c, kind, x, y, button, down, mask) ==
    [call |-> c, kind |-> kind, x |-> x, y |-> y, button |-> button, down |-> down,
     mask |-> mask]

NoCommand == Command(0, "none", 0, 0, "none", FALSE, 0)

PtrCall(ev, pc, att, pending, failed) ==
    [ev |-> ev, pc |-> pc, attempt |-> att, pending |-> pending, failed |-> failed]

\* `const bit = event.button === 'left' ? 1 : event.button === 'right' ? 2 : 4`.
ButtonBit(button) == IF button = "left" THEN 1 ELSE IF button = "right" THEN 2 ELSE 4

HasBit(mask, bit) == (mask \div bit) % 2 = 1

\* `this.mouseMask |= bit` and `this.mouseMask &= ~bit` (959-963).
NextMask(mask, ev) ==
    IF ev.action = "down"
    THEN (IF HasBit(mask, ButtonBit(ev.button)) THEN mask ELSE mask + ButtonBit(ev.button))
    ELSE (IF HasBit(mask, ButtonBit(ev.button)) THEN mask - ButtonBit(ev.button) ELSE mask)

\* Case 'mouse-move' up to the await of its dispatch (921-941): the cursor
\* fields are written and the first attempt is started.
MoveStart(c, ev) ==
    /\ mouseX' = ev.x
    /\ mouseY' = ev.y
    /\ ptrCalls' = [ptrCalls EXCEPT ![c] =
          PtrCall(ev, "move", 0,
                  IF absoluteMouse
                  THEN Command(c, "abs", ScaleAbs(ev.x, drvViewport.width),
                               ScaleAbs(ev.y, drvViewport.height), "none", FALSE, 0)
                  ELSE Command(c, "rel", ev.x - mouseX, ev.y - mouseY, "none", FALSE, 0),
                  "none")]
    /\ UNCHANGED mouseMask

\* Case 'mouse-button' from line 947 on: the QMP button event, or the mask
\* update and the HMP command that reads the mask when it is run.
ButtonStart(c, ev) ==
    /\ mouseMask' = IF absoluteMouse THEN mouseMask ELSE NextMask(mouseMask, ev)
    /\ ptrCalls' = [ptrCalls EXCEPT ![c] =
          PtrCall(ev, "button", 0,
                  IF absoluteMouse
                  THEN Command(c, "btn", 0, 0, ev.button, ev.action = "down", 0)
                  ELSE Command(c, "mask", 0, 0, "none", FALSE, NextMask(mouseMask, ev)),
                  "none")]
    /\ UNCHANGED <<mouseX, mouseY>>

ptrFrame ==
    <<sessVars, schedVars, startVars, eventVars, loopVars, closeVars, snapVars,
      inputVars, miscVars, retryVars, absoluteMouse, qmpSent, ocrVars, findVars,
      tmpVars, keyVars, planVars, reqVars, shotVars>>

\* Variant: a per-session queue lets a call begin only when no other call is
\* in progress.
PointerSendInput_Queued(c, ev) ==
    /\ ptrCalls[c].pc = "idle"
    /\ \A o \in Callers \ {c} : ptrCalls[o].pc \in {"idle", "resolved", "rejected"}
    /\ IF readOnly
       THEN /\ ptrCalls' = [ptrCalls EXCEPT ![c] = PtrCall(ev, "resolved", 0, NoCommand, "none")]
            /\ UNCHANGED <<mouseX, mouseY, mouseMask>>
       ELSE IF ev.type = "mouse-move" \/ ev.hasXY
       THEN MoveStart(c, ev)
       ELSE ButtonStart(c, ev)
    /\ UNCHANGED <<delivered, ptrFrame>>

\* session.sendInput(event) (1155-1161) and the driver's sendInput up to its
\* first await: a mouse-button event with coordinates begins with the nested
\* sendInput of a mouse-move (944-946).
PointerSendInput(c, ev) ==
    /\ ptrCalls[c].pc = "idle"
    /\ IF readOnly
       THEN /\ ptrCalls' = [ptrCalls EXCEPT ![c] = PtrCall(ev, "resolved", 0, NoCommand, "none")]
            /\ UNCHANGED <<mouseX, mouseY, mouseMask>>
       ELSE IF ev.type = "mouse-move" \/ ev.hasXY
       THEN MoveStart(c, ev)
       ELSE ButtonStart(c, ev)
    /\ UNCHANGED <<delivered, ptrFrame>>

\* The operation of runWithRetry is called again: the HMP button command
\* reads the mask as it is now, the other commands are as first built.
Reissued(call) ==
    IF call.pending.kind = "mask"
    THEN [call EXCEPT !.pending.mask = mouseMask]
    ELSE call

\* Variant: the button is dispatched although the move has failed.
MoveRaised_ButtonAnyway(c) ==
    IF ptrCalls[c].ev.type = "mouse-button"
    THEN ButtonStart(c, ptrCalls[c].ev)
    ELSE /\ ptrCalls' = [ptrCalls EXCEPT ![c].pc = "rejected", ![c].failed = "move"]
         /\ UNCHANGED <<mouseX, mouseY, mouseMask>>

\* The move's runWithRetry has rethrown (806-808): nothing catches it in
\* case 'mouse-move' or at the await of line 945, so the call rejects.
MoveRaised(c) ==
    /\ ptrCalls' = [ptrCalls EXCEPT ![c].pc = "rejected", ![c].failed = "move"]
    /\ UNCHANGED <<mouseX, mouseY, mouseMask>>

\* One command run by runWithRetry (801-817) has ended.  ok: the backend
\* took it; otherwise the catch branch rethrows or starts another attempt.
PointerDispatched(c, ok) ==
    /\ ptrCalls[c].pc \in {"move", "button"}
    /\ IF ok
       THEN /\ delivered' = Append(delivered, ptrCalls[c].pending)
            /\ IF ptrCalls[c].pc = "move" /\ ptrCalls[c].ev.type = "mouse-button"
               THEN ButtonStart(c, ptrCalls[c].ev)
               ELSE /\ ptrCalls' = [ptrCalls EXCEPT ![c].pc = "resolved"]
                    /\ UNCHANGED <<mouseX, mouseY, mouseMask>>
       ELSE /\ UNCHANGED delivered
            /\ IF ptrCalls[c].attempt >= inputRetryCount
               THEN IF ptrCalls[c].pc = "move"
                    THEN MoveRaised(c)
                    ELSE /\ ptrCalls' = [ptrCalls EXCEPT ![c].pc = "rejected",
                                                         ![c].failed = "button"]
                         /\ UNCHANGED <<mouseX, mouseY, mouseMask>>
               ELSE /\ ptrCalls' = [ptrCalls EXCEPT ![c] =
                          IF inputRetryDelayMs > 0
                          THEN [@ EXCEPT !.attempt = @ + 1,
                                         !.pc = IF @ = "move" THEN "move-sleep"
                                                ELSE "button-sleep"]
                          ELSE Reissued([@ EXCEPT !.attempt = @ + 1])]
                    /\ UNCHANGED <<mouseX, mouseY, mouseMask>>
    /\ UNCHANGED ptrFrame

\* await sleep(inputRetryDelayMs) is over (812-814): the next attempt starts.
PointerWake(c) ==
    /\ ptrCalls[c].pc \in {"move-sleep", "button-sleep"}
    /\ ptrCalls' = [ptrCalls EXCEPT ![c] =
          Reissued([@ EXCEPT !.pc = IF @ = "move-sleep" THEN "move" ELSE "button"])]
    /\ UNCHANGED <<mouseX, mouseY, mouseMask, delivered, ptrFrame>>

InitPointer ==
    /\ backend = "spice" /\ driver = "spice" /\ readOnly \in BOOLEAN
    /\ drvViewport = DEFAULT_VIEWPORT
    /\ SessionIdle
    /\ inputRetryCount \in {0, 1}
    /\ inputRetryDelayMs \in RetryDelays
    /\ retryLabel = "QMP input"
    /\ retryPc = "idle" /\ attempt = 0 /\ opCalls = 0
    /\ retryWarnings = 0 /\ retryReturned = 0 /\ retryThrown = 0
    /\ absoluteMouse \in BOOLEAN /\ mouseX = 0 /\ mouseY = 0 /\ qmpSent = NoSent
    /\ OcrIdle /\ FindIdle /\ TmpIdle /\ KeyIdle /\ PlanIdle /\ ReqIdle /\ ShotIdle
    /\ ptrCalls = [c \in Callers |-> PtrCall(NoPtrEvent, "idle", 0, NoCommand, "none")]
    /\ delivered = <<>>
    /\ mouseMask = 0

NextPointer ==
    \/ \E c \in Callers, ev \in PointerEvents : PointerSendInput(c, ev)
    \/ \E c \in Callers, ok \in BOOLEAN : PointerDispatched(c, ok)
    \/ \E c \in Callers : PointerWake(c)

SpecPointer == InitPointer /\ [][NextPointer]_vars

----------------------------------------------------------------------------
(* runVisionPlan: the requests and the extraction of the answer (204-265) *)

\* {"message":{"content": value}}, {"response": value} and both together.
ChatBody(value) ==
    Braced(<<Str("message"), Sym(":")>> \o Braced(<<Str("content"), Sym(":")>> \o value))

CompletionBody(value) == Braced(<<Str("response"), Sym(":")>> \o value)

BothBody(chat, completion) ==
    Braced(<<Str("message"), Sym(":")>> \o Braced(<<Str("content"), Sym(":")>> \o chat)
           \o Comma \o <<Str("response"), Sym(":")>> \o completion)

\* A field's value as it stands in a body: a text, the empty text, null.
FieldValues == {<<Str("click it")>>, <<Str("")>>, <<Sym("null")>>}

\* Response bodies: empty, prose, JSON with neither field, and JSON with
\* the chat-style field, the completion-style field, or both.
Bodies ==
    {<<>>, <<Word("Sure")>>, Braced(Pair("error", Str("busy")))}
    \cup {ChatBody(v) : v \in FieldValues}
    \cup {CompletionBody(v) : v \in FieldValues}
    \cup {BothBody(c, v) : c \in FieldValues, v \in FieldValues}

\* How a fetch ends: a 2xx response, another status, or a rejection (network
\* failure, abort by the timeout).
Outcomes == {"ok", "status", "throw"}

Response(outcome, body) == [outcome |-> outcome, body |-> body]

\* a ?? b
Coalesce(a, b) == IF a.k \in {"undef", "null"} THEN b ELSE a

\* The text a value of `content` stands for and whether `!content` holds.
FromField(name, val) == [from |-> name, empty |-> (val.k = "str" /\ val.s = "")]

FromBody(name, body) == [from |-> name, empty |-> (body = <<>>)]

\* JSON.parse in a try whose catch leaves undefined (218-223, 245-250).
ParseOrUndefined(body) == IF JsonParse(body).ok THEN JsonParse(body).val ELSE JUndef

\* Variant: || in place of ??, an empty chat content falls through.
ExtractChat_Or(body) ==
    LET data == ParseOrUndefined(body)
        chat == Get(Get(data, "message"), "content")
        completion == Get(data, "response")
    IN  IF chat.k = "str" /\ chat.s # "" THEN FromField("chat", chat)
        ELSE IF completion.k = "str" /\ completion.s # "" THEN FromField("completion", completion)
        ELSE FromBody("body", body)

\* data?.message?.content ?? data?.response ?? rawText ?? '' (224).
ExtractChat(body) ==
    LET data == ParseOrUndefined(body)
        chat == Get(Get(data, "message"), "content")
        completion == Get(data, "response")
    IN  IF Coalesce(chat, completion).k \in {"undef", "null"}
        THEN FromBody("body", body)
        ELSE FromField(IF chat.k \in {"undef", "null"} THEN "completion" ELSE "chat",
                       Coalesce(chat, completion))

\* genJson?.response ?? genText ?? '', or genText when it is not JSON (244-250).
ExtractGenerate(body) ==
    IF JsonParse(body).ok /\ Get(JsonParse(body).val, "response").k \notin {"undef", "null"}
    THEN FromField("generate", Get(JsonParse(body).val, "response"))
    ELSE FromBody("generate-body", body)

reqFrame ==
    <<sessVars, schedVars, startVars, eventVars, loopVars, closeVars, snapVars,
      inputVars, miscVars, retryVars, mouseVars, ocrVars, findVars, tmpVars, keyVars,
      planVars, ptrVars, shotVars>>

\* runVisionPlan up to `await fetch(.../api/chat)` (180-212).
VisionCall ==
    /\ visionPc = "idle"
    /\ visionPc' = "chat"
    /\ requests' = requests + 1
    /\ UNCHANGED <<chatResponse, genResponse, content, reqFrame>>

\* The first fetch has settled (212-252): a rejection and a non-2xx status
\* raise; otherwise the text is extracted and, when it is empty, the second
\* request is sent; when it is not, parseVisionPlan is called with it.
ChatSettled ==
    /\ visionPc = "chat"
    /\ IF chatResponse.outcome = "throw"
       THEN visionPc' = "failed-fetch" /\ UNCHANGED <<requests, content>>
       ELSE IF chatResponse.outcome = "status"
       THEN visionPc' = "failed-status" /\ UNCHANGED <<requests, content>>
       ELSE /\ content' = ExtractChat(chatResponse.body)
            /\ IF ExtractChat(chatResponse.body).empty
               THEN visionPc' = "generate" /\ requests' = requests + 1
               ELSE visionPc' = "parsing" /\ UNCHANGED requests
    /\ UNCHANGED <<chatResponse, genResponse, reqFrame>>

\* The second fetch has settled (238-258); its status is not looked at.
GenerateSettled ==
    /\ visionPc = "generate"
    /\ IF genResponse.outcome = "throw"
       THEN visionPc' = "failed-fetch" /\ UNCHANGED content
       ELSE /\ content' = ExtractGenerate(genResponse.body)
            /\ visionPc' = IF ExtractGenerate(genResponse.body).empty
                           THEN "failed-missing" ELSE "parsing"
    /\ UNCHANGED <<chatResponse, genResponse, requests, reqFrame>>

InitRequest ==
    /\ backend = "mock" /\ driver = "mock" /\ readOnly = FALSE /\ drvViewport = NoViewport
    /\ SessionIdle /\ RetryIdle /\ MouseIdle /\ OcrIdle /\ FindIdle
    /\ TmpIdle /\ KeyIdle /\ PlanIdle /\ PtrIdle /\ ShotIdle
    /\ chatResponse \in {Response(o, b) : o \in Outcomes, b \in Bodies}
    /\ genResponse \in {Response(o, b) : o \in Outcomes, b \in Bodies}
    /\ visionPc = "idle" /\ requests = 0
    /\ content = [from |-> "none", empty |-> TRUE]

NextRequest ==
    \/ VisionCall
    \/ ChatSettled
    \/ GenerateSettled

SpecRequest == InitRequest /\ [][NextRequest]_vars

----------------------------------------------------------------------------
(* captureFrame staging its screenshot in a file: Vnc 521-536, Spice 844-865
   without the guest screenshot *)

\* The captures that share one file path: /tmp/vmrc_<domain>.png for every
\* capture of a domain (848), /tmp/vmrc_vnc_<host>_<port>.png for every
\* capture of a host and port (522).
Captures == {1, 2, 3}

\* No image: the file does not exist yet.
NoImage == 0

Shot(pc, image) == [pc |-> pc, image |-> image]

shotFrame ==
    <<sessVars, schedVars, startVars, eventVars, loopVars, closeVars, snapVars,
      inputVars, miscVars, retryVars, mouseVars, ocrVars, findVars, tmpVars, keyVars,
      planVars, ptrVars, reqVars>>

\* captureFrame up to the await of the screenshot process (525, 849).
ShotStart(c) ==
    /\ shots[c].pc = "idle"
    /\ shots' = [shots EXCEPT ![c].pc = "screenshot"]
    /\ UNCHANGED <<stageFile, shotFrame>>

\* vncsnapshot / virsh screenshot of capture c has ended: it wrote the image
\* it took, image c, to the path, or failed and the capture rejects.
ShotWritten(c, ok) ==
    /\ shots[c].pc = "screenshot"
    /\ IF ok
       THEN /\ stageFile' = c
            /\ shots' = [shots EXCEPT ![c].pc = "read"]
       ELSE /\ shots' = [shots EXCEPT ![c].pc = "rejected"]
            /\ UNCHANGED stageFile
    /\ UNCHANGED shotFrame

\* Variant: every capture reads back the image it wrote itself.
ShotRead_Own(c) ==
    /\ shots[c].pc = "read"
    /\ shots' = [shots EXCEPT ![c] = Shot("returned", c)]
    /\ UNCHANGED <<stageFile, shotFrame>>

\* `buffer = await readFile(filePath)` (526, 850) and the return of the
\* Frame holding that buffer.
ShotRead(c) ==
    /\ shots[c].pc = "read"
    /\ shots' = [shots EXCEPT ![c] = Shot("returned", stageFile)]
    /\ UNCHANGED <<stageFile, shotFrame>>

InitShot ==
    /\ backend \in {"vnc", "spice"} /\ driver = backend
    /\ readOnly = FALSE /\ drvViewport = NoViewport
    /\ SessionIdle /\ RetryIdle /\ MouseIdle /\ OcrIdle /\ FindIdle
    /\ TmpIdle /\ KeyIdle /\ PlanIdle /\ PtrIdle /\ ReqIdle
    /\ stageFile = NoImage
    /\ shots = [c \in Captures |-> Shot("idle", NoImage)]

NextShot ==
    \/ \E c \in Captures : ShotStart(c)
    \/ \E c \in Captures, ok \in BOOLEAN : ShotWritten(c, ok)
    \/ \E c \in Captures : ShotRead(c)

SpecShot == InitShot /\ [][NextShot]_vars

----------------------------------------------------------------------------
(* Properties *)

Rank(st) ==
    CASE st = "none" -> 0
      [] st = "connecting" -> 1
      [] st = "connected" -> 2
      [] st = "disconnected" -> 3
      [] st = "error" -> 3

Emitted(st) == Count(statusEvents, st)

\* C1: the status only moves forward along connecting -> connected ->
\* {disconnected, error}; once disconnected or error it is never connected
\* again, also when close() runs while connect is in flight.
C1_StatusNeverMovesBack ==
    [][status' # status => Rank(status') >= Rank(status)]_vars

\* C2: on a read-only session every sendInput and setClipboard call resolves
\* and none reaches driver.sendInput or driver.setClipboard.
C2_ReadOnlyNeverDispatches ==
    readOnly => /\ drvInputCalls = 0
                /\ drvClipCalls = 0
                /\ inputRejected = 0
                /\ inputResolved = inputCalls

\* A read-only session on a driver whose every operation fails, in status
\* error, has resolved a clipboard event and one more call.
C2_Witness ==
    /\ readOnly
    /\ driver = "unsupported"
    /\ status = "error"
    /\ ignoredInput = "clipboard"
    /\ inputResolved = 2

\* C3: a loop tick whose capture fails changes no status, emits no frame
\* and no status event, and nothing escapes the loop callback.
C3_FailedTickIsSilent ==
    [][loopFailures' # loopFailures =>
          /\ status' = status
          /\ statusEvents' = statusEvents
          /\ frameCount' = frameCount
          /\ loopUncaught' = loopUncaught]_vars

\* Two ticks in a row have failed and the session is still connected, its
\* timer still set.
C3_Witness ==
    /\ loopFailures = 2
    /\ frameCount = 0
    /\ status = "connected"
    /\ frameTimer

\* C4: two close() calls emit status disconnected exactly once in total, and
\* the second call does not raise.
C4_CloseTwiceEmitsOnce ==
    closeResolved + closeRejected >= 2 =>
        /\ Emitted("disconnected") = 1
        /\ (driver # "unsupported" => closeRejected = 0)

\* C5: a failed connect makes the status error, emits status error, rejects
\* startSession with the same error and starts no frame loop; and the status
\* becomes error by no step other than the failed connect.
C5_ErrorOnlyFromConnect ==
    /\ [](connectError # "none" =>
            /\ startResult = "rejected"
            /\ startError = connectError
            /\ Emitted("error") = 1
            /\ ~frameTimer /\ ticks = 0 /\ frameCount = 0)
    /\ [][(status' = "error" /\ status # "error") =>
            /\ connectError = "none" /\ connectError' # "none"
            /\ statusEvents' = Append(statusEvents, "error")
            /\ loopFailures' = loopFailures
            /\ snapRejected' = snapRejected
            /\ inputRejected' = inputRejected
            /\ viewportRejected' = viewportRejected
            /\ healthFailed' = healthFailed]_vars

\* The second virsh call of a SPICE connect failed: status error, start
\* rejected with that error.
C5_Witness ==
    /\ driver = "spice"
    /\ connectError = "domdisplay"
    /\ status = "error"
    /\ startResult = "rejected"

NoOwnDriver == KnownBackends \ {"mock", "spice", "vnc"}

\* C6 as stated: a session on a kind of the closed set without a driver of
\* its own (rdp, webrtc, custom) fails to start and emits no frame.
C6_UnimplementedKindFails ==
    backend \in NoOwnDriver =>
        /\ startResult \in {"pending", "rejected"}
        /\ frameCount = 0
        /\ Emitted("connected") = 0

\* C6 amended: a backend value for which createDriver has no case gets the
\* unsupported driver and fails to start: startSession rejects, no frame is
\* emitted and the only status event is error; rdp, webrtc and custom are
\* given the mock driver.
C6_UnknownKindFails ==
    /\ (backend \notin KnownBackends \cup {"none"} =>
            /\ driver = "unsupported"
            /\ startResult \in {"pending", "rejected"}
            /\ frameCount = 0 /\ ~frameTimer
            /\ statusEvents = IF startResult = "rejected" THEN <<"error">> ELSE <<>>)
    /\ (backend \in NoOwnDriver => driver = "mock")

\* A session on a backend outside the closed set: start rejected, one status
\* event error, and a close() that raised.
C6_Witness ==
    /\ backend = "other"
    /\ startResult = "rejected"
    /\ statusEvents = <<"error">>
    /\ closeRejected = 1

\* C7: at most one capture started by a loop tick is in flight.
C7_LoopNeverOverlaps ==
    LoopCapturesInFlight <= 1

\* C8: once a close() has resolved (and emitted disconnected) no frame event
\* is emitted.
C8_NoFrameAfterClose ==
    [][closeResolved >= 1 => frameCount' = frameCount]_vars

\* C9: after a successful capture, by a tick or on demand, the session
\* viewport is the size of the returned frame; a failed capture leaves the
\* viewport as it was.
C9_ViewportFollowsFrame ==
    [][/\ (frameCount' # frameCount \/ snapResolved' # snapResolved) =>
              viewport' = lastFrame'
       /\ (loopFailures' # loopFailures \/ snapRejected' # snapRejected) =>
              viewport' = viewport]_vars

\* A tick and an on-demand snapshot of a VNC session have both succeeded and
\* the session runs with the detected size.
C9_Witness ==
    /\ driver = "vnc"
    /\ frameCount >= 1
    /\ snapResolved = 1
    /\ lastFrame = SmallViewport
    /\ viewport = SmallViewport

\* C10: runWithRetry invokes the operation at most inputRetryCount + 1
\* times, returns the first success without a further invocation, rethrows
\* the error of the last attempt when all attempts failed, and terminates.
C10_RetryBounded ==
    /\ [](/\ opCalls <= inputRetryCount + 1
          /\ retryPc = "returned" => (retryReturned = opCalls /\ retryThrown = 0)
          /\ retryPc = "thrown" => /\ retryThrown = opCalls
                                   /\ opCalls = inputRetryCount + 1
                                   /\ retryReturned = 0)
    /\ [][(retryPc \in {"returned", "thrown"}) => opCalls' = opCalls]_vars
    /\ <>(retryPc \in {"returned", "thrown"})

\* With the default count of 2, three attempts failed and the third error
\* was rethrown after two warnings.
C10_Witness ==
    /\ inputRetryCount = 2
    /\ retryPc = "thrown"
    /\ opCalls = 3
    /\ retryThrown = 3
    /\ retryWarnings = 2

\* C11: a sendInput or setClipboard call whose driver dispatch fails rejects
\* to its caller only: status, viewport, frame timer and registry are as
\* before and no status or frame event is emitted; afterwards a further
\* input call and a further tick are still accepted.
C11_InputFailureIsLocal ==
    /\ [][inputRejected' # inputRejected =>
            /\ inputRejected' = inputRejected + 1
            /\ status' = status
            /\ viewport' = viewport
            /\ frameTimer' = frameTimer
            /\ sessions' = sessions
            /\ statusEvents' = statusEvents
            /\ frameCount' = frameCount
            /\ snapRejected' = snapRejected
            /\ loopFailures' = loopFailures]_vars
    /\ []((inputRejected >= 1 /\ status = "connected" /\ CallsMade < MaxCalls) =>
             ENABLED (\E ev \in EventTypes : SendInput(ev)))
    /\ []((inputRejected >= 1 /\ frameTimer /\ micro = <<>> /\ ticks < MaxTicks) =>
             ENABLED Tick)

\* A VNC session had an input dispatch fail; after it a tick delivered a
\* frame and another input call resolved, the session still connected.
C11_Witness ==
    /\ driver = "vnc"
    /\ ~readOnly
    /\ inputRejected = 1
    /\ inputResolved = 1
    /\ frameCount >= 1
    /\ status = "connected"
    /\ frameTimer
    /\ statusEvents = <<"connected">>

\* C12: a capture failure in an on-demand snapshot() rejects that call and
\* nothing else: no status change, no status or frame event, the frame timer
\* stays set; a capture failure in a loop tick rejects no caller's call.
C12_SnapshotFailureIsLocal ==
    [][/\ snapRejected' # snapRejected =>
              /\ snapRejected' = snapRejected + 1
              /\ status' = status
              /\ statusEvents' = statusEvents
              /\ frameCount' = frameCount
              /\ frameTimer' = frameTimer
              /\ loopFailures' = loopFailures
       /\ loopFailures' # loopFailures =>
              /\ snapRejected' = snapRejected
              /\ snapResolved' = snapResolved
              /\ inputRejected' = inputRejected
              /\ loopUncaught' = loopUncaught]_vars

\* On a connected SPICE session one on-demand snapshot was rejected, one
\* tick failed and another tick delivered a frame; the timer is still set.
C12_Witness ==
    /\ driver = "spice"
    /\ snapRejected = 1
    /\ loopFailures = 1
    /\ frameCount = 1
    /\ status = "connected"
    /\ frameTimer

\* C13: startSession for spice without a label and without a configured
\* domain is rejected before a session exists: the registry is as before,
\* no connect is pending or in flight, no status event is emitted.
C13_MissingTargetFailsEarly ==
    /\ [][(startError' = "config" /\ startError # "config") =>
            /\ backend' = "spice"
            /\ startResult' = "rejected"
            /\ sessions' = sessions
            /\ statusEvents' = statusEvents
            /\ micro' = micro /\ ext' = ext]_vars
    /\ [](startError = "config" =>
            /\ sessions = {} /\ driver = "none" /\ status = "none"
            /\ statusEvents = <<>>
            /\ micro = <<>> /\ ext = EmptyBag
            /\ connectError = "none" /\ ~frameTimer)

\* A spice start without a target identifier was rejected and nothing exists.
C13_Witness ==
    /\ backend = "spice"
    /\ startResult = "rejected"
    /\ startError = "config"
    /\ sessions = {}

\* C14: disconnect() raises for no driver variant, so no close() is
\* rejected, and a close() that settles after a failed start leaves the
\* session disconnected.
C14_DisconnectIsSafe ==
    /\ [](closeRejected = 0)
    /\ [][(closeResolved' + closeRejected' # closeResolved + closeRejected) =>
            status' = "disconnected"]_vars

\* The value sent is a nearest integer to logical * 65535 / dim.
IsNearest(v, logical, dim) ==
    /\ 2 * v * dim - 2 * logical * MAX_ABS <= dim
    /\ 2 * logical * MAX_ABS - 2 * v * dim <= dim

\* Each axis of an absolute move is scaled on its own with the viewport the
\* driver held when the call was made.
ScaledPerAxis ==
    (absoluteMouse /\ (mouseX' # mouseX \/ mouseY' # mouseY \/ qmpSent' # qmpSent)) =>
        /\ qmpSent'.kind = "abs"
        /\ qmpSent'.w = drvViewport.width /\ qmpSent'.h = drvViewport.height
        /\ (mouseX' \in 0..drvViewport.width =>
                IsNearest(qmpSent'.x, mouseX', drvViewport.width))
        /\ (mouseY' \in 0..drvViewport.height =>
                IsNearest(qmpSent'.y, mouseY', drvViewport.height))

\* C15 as stated: each axis is scaled as round(logical / dimension * 65535)
\* with the driver's viewport at the time of the call, and for width 1280
\* x = 640 is sent as 32767.
C15_HalfWidthIs32767 ==
    /\ [][ScaledPerAxis]_vars
    /\ []((qmpSent.kind = "abs" /\ qmpSent.w = 1280 /\ mouseX = 640) =>
             qmpSent.x = 32767)

\* C15 amended: each axis is scaled as round(logical / dimension * 65535),
\* a half going up, with the driver's viewport at the time of the call; for
\* width 1280, x = 640 (quotient 32767.5) is sent as 32768.
C15_HalfWidthIs32768 ==
    /\ [][ScaledPerAxis]_vars
    /\ []((qmpSent.kind = "abs" /\ qmpSent.w = 1280 /\ mouseX = 640) =>
             qmpSent.x = 32768)
    /\ []((qmpSent.kind = "abs" /\ qmpSent.h = 720 /\ mouseY = 360) =>
             qmpSent.y = 32768)

\* The pointer was moved to the middle of a 1280x720 viewport in absolute
\* mode.
C15_Witness ==
    /\ absoluteMouse
    /\ drvViewport = DEFAULT_VIEWPORT
    /\ mouseX = 640 /\ mouseY = 360
    /\ qmpSent.kind = "abs"
    /\ qmpSent.w = 1280 /\ qmpSent.h = 720

\* What C16 says of one axis: v was sent for logical with dimension dim.
AxisInRange(v, logical, dim) ==
    /\ v \in 0..MAX_ABS
    /\ (logical = 0 => v = 0)
    /\ (logical = dim => v = MAX_ABS)
    /\ (logical < 0 => v = 0)
    /\ (logical > dim => v = MAX_ABS)

\* C16: for every logical coordinate and positive viewport dimension the
\* absolute value sent lies in 0..65535, 0 maps to 0, the dimension to 65535,
\* anything below 0 to 0, anything above the dimension to 65535, and a move
\* to a coordinate not smaller sends a value not smaller.
C16_AbsoluteRangeAndMonotone ==
    /\ [](qmpSent.kind = "abs" =>
            /\ AxisInRange(qmpSent.x, mouseX, qmpSent.w)
            /\ AxisInRange(qmpSent.y, mouseY, qmpSent.h))
    /\ [][(qmpSent.kind = "abs" /\ qmpSent'.kind = "abs") =>
            /\ (qmpSent'.w = qmpSent.w /\ mouseX' >= mouseX) => qmpSent'.x >= qmpSent.x
            /\ (qmpSent'.h = qmpSent.h /\ mouseY' >= mouseY) => qmpSent'.y >= qmpSent.y]_vars

\* A move beyond the right edge and above the top edge of a 6x4 viewport was
\* sent as (65535, 0).
C16_Witness ==
    /\ qmpSent.kind = "abs"
    /\ qmpSent.w = 6 /\ qmpSent.h = 4
    /\ mouseX = 7 /\ mouseY = -1
    /\ qmpSent.x = MAX_ABS /\ qmpSent.y = 0

\* The word records of one (block, paragraph, line) key, in row order.
KeyOf(rec) == <<rec.block, rec.paragraph, rec.line>>

WordsOf(k) == SelectSeq(words, LAMBDA w : KeyOf(w) = k)

\* Texts joined by single spaces.
RECURSIVE JoinSp(_)
JoinSp(ws) ==
    IF ws = <<>> THEN <<>>
    ELSE IF Len(ws) = 1 THEN ws[1].text
    ELSE JoinSp(SubSeq(ws, 1, Len(ws) - 1)) \o <<" ">> \o ws[Len(ws)].text

SetMin(S) == CHOOSE m \in S : \A n \in S : m <= n

SetMax(S) == CHOOSE m \in S : \A n \in S : m >= n

\* The union of the boxes of a non-empty sequence of records.
UnionBox(ws) ==
    [x |-> SetMin({ws[i].bbox.x : i \in 1..Len(ws)}),
     y |-> SetMin({ws[i].bbox.y : i \in 1..Len(ws)}),
     width |-> SetMax({ws[i].bbox.x + ws[i].bbox.width : i \in 1..Len(ws)})
                   - SetMin({ws[i].bbox.x : i \in 1..Len(ws)}),
     height |-> SetMax({ws[i].bbox.y + ws[i].bbox.height : i \in 1..Len(ws)})
                   - SetMin({ws[i].bbox.y : i \in 1..Len(ws)})]

\* The lines built from word rows only.
WordBuiltLines ==
    {i \in 1..Len(lineMap) : KeyOf(lineMap[i]) \notin lineSeeds}

\* A text that neither begins nor ends with white space.
NoOuterSpace(t) == t # <<>> /\ t[1] # " " /\ t[Len(t)] # " "

\* C17 as stated: the text of a line built from the word rows of one key is
\* the rows' texts joined by single spaces in row order, its box the union
\* of the rows' boxes.
C17_LineIsJoinAndUnion ==
    \A i \in WordBuiltLines :
        /\ lineMap[i].text = JoinSp(WordsOf(KeyOf(lineMap[i])))
        /\ lineMap[i].bbox = UnionBox(WordsOf(KeyOf(lineMap[i])))

\* C17 amended: the box is the union of the rows' boxes; the text is the
\* single-space join when no row's text begins or ends with white space, and
\* once a second row is merged the text never begins or ends with white
\* space; "Hello" (0,0,50,20) and "World" (55,0,50,20) give "Hello World"
\* with box (0,0,105,20).
C17_LineIsTrimmedJoinAndUnion ==
    \A i \in WordBuiltLines :
        /\ lineMap[i].bbox = UnionBox(WordsOf(KeyOf(lineMap[i])))
        /\ (\A j \in 1..Len(WordsOf(KeyOf(lineMap[i]))) :
                NoOuterSpace(WordsOf(KeyOf(lineMap[i]))[j].text))
             => lineMap[i].text = JoinSp(WordsOf(KeyOf(lineMap[i])))
        /\ Len(WordsOf(KeyOf(lineMap[i]))) = 1
             => lineMap[i].text = WordsOf(KeyOf(lineMap[i]))[1].text
        /\ Len(WordsOf(KeyOf(lineMap[i]))) >= 2
             => (lineMap[i].text = <<>> \/ NoOuterSpace(lineMap[i].text))
        /\ (/\ Len(WordsOf(KeyOf(lineMap[i]))) = 2
            /\ WordsOf(KeyOf(lineMap[i]))[1].text = Hello
            /\ WordsOf(KeyOf(lineMap[i]))[1].bbox = Box(0, 0, 50, 20)
            /\ WordsOf(KeyOf(lineMap[i]))[2].text = World
            /\ WordsOf(KeyOf(lineMap[i]))[2].bbox = Box(55, 0, 50, 20))
             => /\ lineMap[i].text = <<"H", "e", "l", "l", "o", " ", "W", "o", "r", "l", "d">>
                /\ lineMap[i].bbox = Box(0, 0, 105, 20)

\* The word rows "Hello" (0,0,50,20) and "World" (55,0,50,20) of one key
\* were merged, and a third word at (10,5,20,30) after them.
C17_Witness ==
    /\ Len(lineMap) = 1
    /\ Len(words) = 3
    /\ words[1].text = Hello /\ words[1].bbox = Box(0, 0, 50, 20)
    /\ words[2].text = World /\ words[2].bbox = Box(55, 0, 50, 20)
    /\ words[3].text = Hello /\ words[3].bbox = Box(10, 5, 20, 30)
    /\ lineMap[1].bbox = Box(0, 0, 105, 35)

\* C18: in the OCRResult every OCRWord has exactly one OCRLine with its
\* (block, paragraph, line), and no two OCRLines have the same indices.
C18_WordHasOneLine ==
    ocrPc = "done" =>
        /\ \A i \in 1..Len(words) :
              Cardinality({j \in 1..Len(ocrLines) : KeyOf(ocrLines[j]) = KeyOf(words[i])}) = 1
        /\ \A j1, j2 \in 1..Len(ocrLines) :
              KeyOf(ocrLines[j1]) = KeyOf(ocrLines[j2]) => j1 = j2
        /\ Len(ocrLines) = Len(lineMap)

\* A result with two words in two lines, one line seeded by a line row.
C18_Witness ==
    /\ ocrPc = "done"
    /\ Len(words) = 2
    /\ Len(ocrLines) = 2
    /\ lineSeeds # {}
    /\ KeyOf(words[1]) \in lineSeeds
    /\ KeyOf(words[2]) \notin lineSeeds

\* (block, paragraph, line) of a comes before that of b.
KeyBefore(a, b) ==
    \/ a.block < b.block
    \/ a.block = b.block /\ a.paragraph < b.paragraph
    \/ a.block = b.block /\ a.paragraph = b.paragraph /\ a.line < b.line

\* The first n line texts joined by newlines.
RECURSIVE JoinNl(_, _)
JoinNl(lns, n) ==
    IF n = 0 THEN <<>>
    ELSE IF n = 1 THEN lns[1].text
    ELSE JoinNl(lns, n - 1) \o <<"\n">> \o lns[n].text

\* C19: whatever the order of the rows, the line list of the OCRResult is
\* ascending by (block, paragraph, line) and the full text is the line texts
\* joined by newlines in that order.
C19_LinesSortedTextJoined ==
    ocrPc = "done" =>
        /\ \A i, j \in 1..Len(ocrLines) : i < j => KeyBefore(ocrLines[i], ocrLines[j])
        /\ ocrText = JoinNl(ocrLines, Len(ocrLines))
        /\ {ocrLines[i] : i \in 1..Len(ocrLines)} = {lineMap[i] : i \in 1..Len(lineMap)}

\* Three lines were met in descending order and returned in ascending order.
C19_Witness ==
    /\ ocrPc = "done"
    /\ Len(lineMap) = 3
    /\ KeyOf(lineMap[1]) = <<2, 1, 1>>
    /\ KeyOf(lineMap[2]) = <<1, 2, 1>>
    /\ KeyOf(lineMap[3]) = <<1, 1, 2>>
    /\ KeyOf(ocrLines[1]) = <<1, 1, 2>>
    /\ KeyOf(ocrLines[3]) = <<2, 1, 1>>

\* The records of a list whose text contains the query, both lower-cased
\* unless matchCase is set, in list order.
Containing(recs, call) ==
    SelectSeq(recs, LAMBDA r :
        \E i \in 0..(Len(r.text) - Len(call.query)) :
            \A n \in 1..Len(call.query) :
                IF call.matchCase
                THEN r.text[i + n] = call.query[n]
                ELSE LowerChar(r.text[i + n]) = LowerChar(call.query[n]))

\* The geometry, indices and text of a match, without its level tag.
Untagged(recs) ==
    [i \in 1..Len(recs) |->
        [text |-> recs[i].text, bbox |-> recs[i].bbox,
         block |-> recs[i].block, paragraph |-> recs[i].paragraph, line |-> recs[i].line]]

MatchesAt(level) == SelectSeq(matches, LAMBDA m : m.level = level)

\* C20: a literal query returns exactly the records whose text contains it
\* (lower-cased on both sides unless matchCase): line records tagged line
\* for scope line, word records tagged word for scope word, and for scope
\* all the matching lines before the matching words, each in OCRResult
\* order; "Welcome" over the one line "welcome back", scope line, not
\* case-sensitive, returns one match at level line.
C20_FindReturnsContaining ==
    findCall # NoCall =>
        /\ Untagged(MatchesAt("line")) =
              Untagged(IF findCall.scope \in {"line", "all"}
                       THEN Containing(ocrLines, findCall) ELSE <<>>)
        /\ Untagged(MatchesAt("word")) =
              Untagged(IF findCall.scope \in {"word", "all"}
                       THEN Containing(words, findCall) ELSE <<>>)
        /\ matches = MatchesAt("line") \o MatchesAt("word")
        /\ (/\ findCall = [query |-> Welcome, matchCase |-> FALSE, scope |-> "line"]
            /\ Len(ocrLines) = 1
            /\ ocrLines[1].text = <<"w", "e", "l", "c", "o", "m", "e", " ", "b", "a", "c", "k">>)
             => (Len(matches) = 1 /\ matches[1].level = "line")

\* "Welcome" was searched without matchCase in scope all over the line
\* "welcome back": the line first, then the word "welcome".
C20_Witness ==
    /\ findCall = [query |-> Welcome, matchCase |-> FALSE, scope |-> "all"]
    /\ Len(ocrLines) = 1
    /\ ocrLines[1].text = <<"w", "e", "l", "c", "o", "m", "e", " ", "b", "a", "c", "k">>
    /\ Len(matches) = 2
    /\ matches[1].level = "line"
    /\ matches[2].level = "word"
    /\ matches[2].text = welcome

----------------------------------------------------------------------------
(* Frame events and the registry *)

\* C25 (as stated): every successful capture, by the loop or on demand,
\* emits exactly one frame event.  Session.snapshot (1117-1123) resolves with
\* the frame and emits nothing; only the loop's callback (1110) emits.
C25_FrameOnEveryCapture ==
    [][/\ (snapResolved' # snapResolved) => frameCount' = frameCount + 1
       /\ (frameCount' # frameCount) => frameCount' = frameCount + 1]_vars

\* C26: a session whose status is disconnected or error is not in the
\* registry, however it ended; endSession on an unknown id changes nothing.
C26_EndedSessionsLeaveRegistry ==
    /\ [](status \in {"disconnected", "error"} => SID \notin sessions)
    /\ [][(endNoops' # endNoops) =>
             UNCHANGED <<sessVars, schedVars, startVars, eventVars, loopVars,
                         closeVars, snapVars, inputVars>>]_vars

\* A session was closed and left the registry, and a later endSession on its
\* id returned at once.
C26_Witness ==
    /\ status = "disconnected" /\ SID \notin sessions
    /\ closeResolved > 0 /\ endNoops > 0

----------------------------------------------------------------------------
(* Temporary directories *)

\* C27: a temporary directory created by the resize step or by OCR staging
\* is gone once the operation that created it has returned or raised,
\* whichever step failed; when no resize is needed none is created.
C27_TmpDirsAreScoped ==
    /\ resizePc \in {"returned", "raised"} => "vmrc-vision" \notin tmpDirs
    /\ stagePc \in {"returned", "raised"} => "vmrc-ocr" \notin tmpDirs
    /\ ~NeedsResize(maxWidth, pngDims) => "vmrc-vision" \notin tmpCreated

\* Both commands of the resize failed and the OCR output had no header: both
\* operations raised after creating their directory.
C27_Witness ==
    /\ resizePc = "raised" /\ stagePc = "raised"
    /\ tmpCreated = {"vmrc-vision", "vmrc-ocr"}
    /\ tmpDirs = {}

----------------------------------------------------------------------------
(* SPICE key, text and clipboard input *)

\* The key tables as the documentation gives them: the aliases, and the one
\* character names each table translates.
HasQmpMapping(key) ==
    \/ JsLower(key) \in DOMAIN QMP_KEY_ALIASES
    \/ JsLower(key) \in LowerLetters \cup Digits

HasLegacyMapping(key) ==
    \/ JsLower(key) \in DOMAIN KEY_ALIASES
    \/ JsLower(key) \in LowerLetters \cup Digits \cup DOMAIN VirshPunct

IsPrefix(a, b) ==
    Len(a) <= Len(b) /\ \A i \in 1..Len(a) : a[i] = b[i]

KeySettled == keyPc \in {"resolved", "rejected"}

LegacyInvoked ==
    keyPc = "legacy" \/ \E i \in 1..Len(dispatched) : dispatched[i].via = "send-key"

\* C28 (as stated): for a key event the structured path runs first, with
\* retry; the legacy path runs only after the structured path failed on all
\* its attempts and only for a key-down whose key has a legacy mapping, and
\* then decides the outcome; otherwise the structured path's error is raised.
C28_LegacyOnlyForMappedKeyDown ==
    keyCall.type = "key" =>
        /\ dispatched # <<>> =>
              /\ dispatched[1].via = "qmp"
              /\ ~dispatched[1].ok => dispatched[1].calls = inputRetryCount + 1
        /\ LegacyInvoked =>
              /\ dispatched # <<>> /\ ~dispatched[1].ok
              /\ keyCall.action = "down" /\ HasLegacyMapping(keyCall.key)
              /\ keyPc = "resolved" => dispatched[Len(dispatched)].ok
              /\ keyPc = "rejected" => keyError = "legacy"
        /\ (KeySettled /\ dispatched # <<>> /\ ~dispatched[1].ok
            /\ (keyCall.action = "up" \/ ~HasLegacyMapping(keyCall.key))) =>
              /\ ~LegacyInvoked
              /\ keyPc = "rejected" /\ keyError = "qmp"

\* The key each command of a text or clipboard call was run for.
KeysSent(from) ==
    [i \in 1..(Len(dispatched) - from + 1) |-> dispatched[i + from - 1].keys[1].key]

\* C29 (as stated): setClipboard asks the guest agent first; when that
\* works no key is injected; when it fails the failure is not raised and the
\* characters the legacy table maps are injected one by one in text order,
\* the others skipped; a clipboard event given to sendInput does the same.
C29_ClipboardAgentThenKeys ==
    (keyCall.type \in {"clipboard", "setClipboard"} /\ dispatched # <<>>) =>
        /\ dispatched[1].via = "qga"
        /\ dispatched[1].ok => (Len(dispatched) = 1 /\ keyPc = "resolved")
        /\ ~dispatched[1].ok =>
              /\ keyError # "qga"
              /\ \A i \in 2..Len(dispatched) : dispatched[i].via = "send-key"
              /\ LET expected == SelectSeq(keyCall.text, HasLegacyMapping)
                     wanted == [i \in 1..Len(expected) |-> keyToVirsh(expected[i])]
                 IN  /\ IsPrefix(KeysSent(2), wanted)
                     /\ keyPc = "resolved" => KeysSent(2) = wanted

HasAnyMapping(char) == HasQmpMapping(char) \/ HasLegacyMapping(char)

\* C30 (as stated): a key event whose key has no mapping resolves without
\* any command; a text event skips the characters without a mapping and
\* dispatches the others in order; a name and its lower case translate alike.
C30_UnmappedKeysAreDropped ==
    /\ (keyCall.type = "key" /\ ~HasQmpMapping(keyCall.key)) =>
          /\ keyPc = "resolved"
          /\ dispatched = <<>> /\ opCalls = 0
    /\ keyCall.type = "text" =>
          LET expected == SelectSeq(keyCall.text, HasAnyMapping)
              wanted == [i \in 1..Len(expected) |->
                            IF HasQmpMapping(expected[i]) THEN keyToQmp(expected[i])
                            ELSE keyToVirsh(expected[i])]
          IN  /\ IsPrefix(KeysSent(1), wanted)
              /\ keyPc = "resolved" => KeysSent(1) = wanted
    /\ \A k \in KeyNames \cup TextChars :
          /\ keyToQmp(k) = keyToQmp(JsLower(k))
          /\ keyToVirsh(k) = keyToVirsh(JsLower(k))

----------------------------------------------------------------------------
(* Vision plan parsing *)

\* The JSON candidate as the documentation words it.
FencedBlocks ==
    {p \in (1..Len(planText)) \X (1..Len(planText)) :
        /\ p[1] < p[2]
        /\ planText[p[1]].t = "~~~json" /\ IsFence(planText[p[2]])
        /\ \A k \in (p[1] + 1)..(p[2] - 1) : ~IsFence(planText[k])}

Candidate ==
    IF FencedBlocks # {}
    THEN LET p == CHOOSE p \in FencedBlocks : \A q \in FencedBlocks : p[1] <= q[1]
         IN  SubSeq(planText, p[1] + 1, p[2] - 1)
    ELSE IF \E i, j \in 1..Len(planText) :
                i < j /\ planText[i].t = "{" /\ planText[j].t = "}"
    THEN SubSeq(planText,
                SetMinimum({i \in 1..Len(planText) : planText[i].t = "{"}),
                SetMaximum({j \in 1..Len(planText) : planText[j].t = "}"}))
    ELSE planText

\* The entries of the parsed actions array that pass validation.
KeptEntries ==
    LET actions == Get(JsonParse(Candidate).val, "actions")
    IN  IF actions.k = "arr"
        THEN SelectSeq(actions.items, LAMBDA e : normalizeInputEvent(e).type # "null")
        ELSE <<>>

\* C21: the candidate is the fenced block's content, else the text from the
\* first opening to the last closing brace, else the whole text; when it
\* parses, the plan has the parsed summary string and one action for every
\* validated entry, in the entries' order.  A fenced
\* {"summary":"ok","actions":[{"type":"text","text":"hi"}]} gives summary
\* "ok" and the one text action "hi".
C21_CandidateAndStrictPlan ==
    planPc # "idle" =>
        /\ JsonParse(Candidate).ok <=> planPc = "parsed"
        /\ planPc = "parsed" =>
              /\ planSummary = IF Get(JsonParse(Candidate).val, "summary").k = "str"
                               THEN Get(JsonParse(Candidate).val, "summary") ELSE JUndef
              /\ Len(planActions) = Len(KeptEntries)
              /\ \A i \in 1..Len(planActions) :
                    /\ planActions[i].type = Get(KeptEntries[i], "type").s
                    /\ planActions[i].type = "text" =>
                          planActions[i].text = Get(KeptEntries[i], "text")
        /\ (\E pre \in Chunks \cup {<<>>} :
                /\ \A k \in 1..Len(pre) : ~IsFence(pre[k])
                /\ planText = pre \o FencedPlan) =>
              /\ planPc = "parsed"
              /\ planSummary = JStr("ok")
              /\ planActions = <<[EventOf("text") EXCEPT !.text = JStr("hi")]>>

\* A click fragment followed by the fenced plan: the fenced block wins over
\* the braces around it and over the salvage of the fragment.
C21_Witness ==
    /\ planText = ClickFragment \o FencedPlan
    /\ planPc = "parsed"
    /\ planSummary = JStr("ok")
    /\ Len(planActions) = 1 /\ planActions[1].type = "text"

Contains(text, part) ==
    \E i \in 1..(Len(text) - Len(part) + 1) : SubSeq(text, i, i + Len(part) - 1) = part

\* The text as a whole is an action plan: an object with an actions array.
IsPlan(text) ==
    JsonParse(text).ok /\ Get(JsonParse(text).val, "actions").k = "arr"

ActionsContain(events) == Contains(planActions, events)

\* C22 (as stated): whenever the text is not itself a plan and holds the
\* click fragment, the plan's actions hold move (10, 20), left down, left up
\* in a row; a type fragment gives a text event, a key fragment a key-down.
C22_FragmentsAreSalvaged ==
    (planPc # "idle" /\ ~IsPlan(planText)) =>
        /\ Contains(planText, ClickFragment) =>
              /\ planPc # "thrown"
              /\ ActionsContain(SalvageOne(ClickFragment))
        /\ Contains(planText, TypeFragment) =>
              /\ planPc # "thrown"
              /\ ActionsContain(<<[EventOf("text") EXCEPT !.text = JStr("hi")]>>)
        /\ Contains(planText, KeyFragment) =>
              /\ planPc # "thrown"
              /\ ActionsContain(<<[EventOf("key") EXCEPT !.key = JStr("Enter"),
                                      !.action = JStr("down")]>>)

Absent(ev, names) == \A name \in names : ev[name] = JUndef

NumberOrAbsent(v) == v.k \in {"num", "undef"}

AllFields ==
    {"key", "action", "modifiers", "text", "x", "y", "button", "deltaX", "deltaY"}

\* The InputEvent union of types.ts (164-170).
MeetsSchema(ev) ==
    \/ /\ ev.type = "key"
       /\ ev.key.k = "str" /\ IsOneOf(ev.action, {"down", "up"})
       /\ \/ ev.modifiers = JUndef
          \/ /\ ev.modifiers.k = "arr"
             /\ \A i \in 1..Len(ev.modifiers.items) : ev.modifiers.items[i].k = "str"
       /\ Absent(ev, AllFields \ {"key", "action", "modifiers"})
    \/ /\ ev.type \in {"text", "clipboard"}
       /\ ev.text.k = "str"
       /\ Absent(ev, AllFields \ {"text"})
    \/ /\ ev.type = "mouse-move"
       /\ ev.x.k = "num" /\ ev.y.k = "num"
       /\ Absent(ev, AllFields \ {"x", "y"})
    \/ /\ ev.type = "mouse-button"
       /\ IsOneOf(ev.button, {"left", "middle", "right"})
       /\ IsOneOf(ev.action, {"down", "up"})
       /\ NumberOrAbsent(ev.x) /\ NumberOrAbsent(ev.y)
       /\ Absent(ev, AllFields \ {"button", "action", "x", "y"})
    \/ /\ ev.type = "mouse-scroll"
       /\ NumberOrAbsent(ev.deltaX) /\ NumberOrAbsent(ev.deltaY)
       /\ Absent(ev, AllFields \ {"deltaX", "deltaY"})

\* C23 (as stated): every action of a returned plan meets the InputEvent
\* schema, optional fields included; an entry that does not is dropped
\* without failing the parse, the others keep their order.
C23_ActionsMeetSchema ==
    /\ planPc \in {"parsed", "salvaged"} =>
          \A i \in 1..Len(planActions) : MeetsSchema(planActions[i])
    /\ (planPc # "idle" /\ JsonParse(Candidate).ok) =>
          /\ planPc = "parsed"
          /\ Len(planActions) = Len(KeptEntries)
          /\ \A i \in 1..Len(planActions) :
                planActions[i].type = Get(KeptEntries[i], "type").s

\* C24 (as stated): when strict parsing fails and salvage finds nothing the
\* error raised carries the raw text; otherwise the plan's raw field is the
\* raw text, on the strict path and on the salvage path.
C24_RawTextIsKept ==
    /\ planPc = "thrown" => planError = planText
    /\ planPc \in {"parsed", "salvaged"} => planRaw = planText

----------------------------------------------------------------------------
(* The frame loop after a failed tick; status events; close() against start() *)

\* A capture started by a loop tick has settled in this step.
LoopCaptureSettles ==
    \/ /\ micro # <<>> /\ Head(micro).k = "capture" /\ Head(micro).origin = "loop"
       /\ micro' = Tail(micro)
    \/ \E t \in BagToSet(ext) :
          t.k = "capture" /\ t.origin = "loop" /\ ext' = Reap(ext, t)

\* C32: a failed tick leaves the timer and the status as they were, the
\* timer is cleared by close() alone, a timer that is set fires again (up to
\* the bound on ticks), and every loop capture that settles without failing
\* emits one frame event.
C32_FailedTickKeepsLoop ==
    /\ [][loopFailures' # loopFailures =>
             frameTimer' = frameTimer /\ status' = status]_vars
    /\ [][(frameTimer /\ ~frameTimer') => closeCalls' = closeCalls + 1]_vars
    /\ []((frameTimer /\ micro = <<>> /\ ticks < MaxTicks) => ENABLED Tick)
    /\ [][(LoopCaptureSettles /\ loopFailures' = loopFailures) =>
             frameCount' = frameCount + 1]_vars

\* One tick's capture failed, another tick's capture emitted a frame, no
\* close() was called and the timer is still set.
C32_Witness ==
    /\ loopFailures = 1
    /\ frameCount = 1
    /\ ticks = 2
    /\ closeCalls = 0
    /\ frameTimer
    /\ status = "connected"

\* C33 (as stated): once the session exists, every change of the status
\* field appends one status event carrying the new value, and a status event
\* is appended by no step that leaves the status as it was.
C33_StatusEventPerTransition ==
    [][/\ (status # "none" /\ status' # status) =>
              statusEvents' = Append(statusEvents, status')
       /\ (statusEvents' # statusEvents) =>
              /\ status' # status
              /\ statusEvents' = Append(statusEvents, status')]_vars

\* C37 (as stated): while the status is disconnected the frame timer is not
\* set and no tick starts a capture.
C37_DisconnectedHasNoLoop ==
    /\ [](status = "disconnected" => ~frameTimer)
    /\ [][status = "disconnected" => ticks' = ticks]_vars

\* C40 (as stated): on a SPICE session with nothing in flight the session's
\* viewport is the viewport the driver scales absolute coordinates with.
C40_ViewportsAgreeAtRest ==
    (driver = "spice" /\ status # "none" /\ micro = <<>> /\ ext = EmptyBag) =>
        viewport = drvViewport

----------------------------------------------------------------------------
(* Pointer calls on the SPICE driver *)

\* The places in delivered of the commands of caller c of the given kinds.
Mine(c, kinds) ==
    {i \in 1..Len(delivered) : delivered[i].call = c /\ delivered[i].kind \in kinds}

\* C31: nothing serializes sendInput calls on a session: a caller that has
\* not called yet can call with any event whatever the other call is doing,
\* and a command in flight can end whatever the other call is doing.
C31_CallsAreNotSerialized ==
    \A c \in Callers :
        /\ ptrCalls[c].pc = "idle" =>
              \A ev \in PointerEvents : ENABLED PointerSendInput(c, ev)
        /\ ptrCalls[c].pc \in {"move", "button"} =>
              \A ok \in BOOLEAN : ENABLED PointerDispatched(c, ok)

\* Two mouse-button calls with different coordinates overlapped: the backend
\* received a button event of one call right after the other call's move,
\* the cursor standing at the other call's coordinates.
C31_Witness ==
    /\ absoluteMouse /\ ~readOnly
    /\ \A c \in Callers : ptrCalls[c].ev.type = "mouse-button" /\ ptrCalls[c].ev.hasXY
    /\ \E i \in 2..Len(delivered) :
          /\ delivered[i].kind = "btn"
          /\ delivered[i - 1].kind = "abs"
          /\ delivered[i - 1].call # delivered[i].call
          /\ delivered[i - 1].x # ScaleAbs(ptrCalls[delivered[i].call].ev.x, drvViewport.width)
          /\ Mine(delivered[i].call, {"abs"}) # {}

\* C34: a mouse-button call with coordinates has its one move taken by the
\* backend before its button command is started, the move being to the
\* event's coordinates; when the move fails for good the call rejects with
\* the move's error and no button command is started; a mouse-button call
\* without coordinates sends no move.
C34_MoveThenButton ==
    \A c \in Callers :
        LET call == ptrCalls[c]
            moves == Mine(c, {"abs", "rel"})
            buttons == Mine(c, {"btn", "mask"})
            buttonBegun == \/ call.pc \in {"button", "button-sleep"}
                           \/ call.failed = "button"
                           \/ buttons # {}
        IN  (call.ev.type = "mouse-button" /\ ~readOnly) =>
               /\ call.ev.hasXY =>
                     /\ call.pc # "idle" => (buttonBegun <=> Cardinality(moves) = 1)
                     /\ \A i \in buttons : \E j \in moves : j < i
                     /\ \A j \in moves : delivered[j].kind = "abs" =>
                           /\ delivered[j].x = ScaleAbs(call.ev.x, drvViewport.width)
                           /\ delivered[j].y = ScaleAbs(call.ev.y, drvViewport.height)
                     /\ call.failed = "move" =>
                           /\ call.pc = "rejected"
                           /\ moves = {} /\ buttons = {}
                     /\ call.pc = "resolved" => Cardinality(buttons) = 1
               /\ ~call.ev.hasXY =>
                     /\ moves = {}
                     /\ call.failed # "move"

\* A button call with coordinates whose move was retried and then failed:
\* rejected, nothing of it reached the backend; the other call, without
\* coordinates, sent its button alone.
C34_Witness ==
    /\ inputRetryCount = 1 /\ ~readOnly
    /\ ptrCalls[1].ev.type = "mouse-button" /\ ptrCalls[1].ev.hasXY
    /\ ptrCalls[1].failed = "move" /\ ptrCalls[1].attempt = 1
    /\ ptrCalls[2].ev.type = "mouse-button" /\ ~ptrCalls[2].ev.hasXY
    /\ ptrCalls[2].pc = "resolved"
    /\ Len(delivered) = 1

RECURSIVE SumOf(_, _)
SumOf(cmds, axis) ==
    IF cmds = <<>> THEN 0
    ELSE (IF Head(cmds).kind = "rel" THEN Head(cmds)[axis] ELSE 0) + SumOf(Tail(cmds), axis)

\* C38 (as stated): in relative mode, with no pointer call in progress, the
\* recorded cursor position is (0, 0) plus the sum of the motions the
\* backend took.
C38_RelativeCursorIsSumOfDeltas ==
    (~absoluteMouse /\ \A c \in Callers : ptrCalls[c].pc \in {"idle", "resolved", "rejected"}) =>
        /\ mouseX = SumOf(delivered, "x")
        /\ mouseY = SumOf(delivered, "y")

----------------------------------------------------------------------------
(* Key events with modifiers *)

\* The QMP name of a key that has a QMP mapping.
QmpName(key) ==
    IF JsLower(key) \in DOMAIN QMP_KEY_ALIASES THEN QMP_KEY_ALIASES[JsLower(key)]
    ELSE JsLower(key)

\* The batch a key event with a mapped key is to be sent as.
ExpectedBatch ==
    LET mods == SelectSeq(keyCall.modifiers, HasQmpMapping)
        down == keyCall.action = "down"
        modPresses == [i \in 1..Len(mods) |-> Press(QmpName(mods[i]), down)]
        keyPress == <<Press(QmpName(keyCall.key), down)>>
    IN  IF down THEN modPresses \o keyPress ELSE keyPress \o modPresses

\* C35 (as stated): a key event with a mapped key goes out as one QMP batch:
\* for a key-down the mapped modifiers down in the given order and then the
\* key down, for a key-up the key up and then the modifiers up; modifiers
\* without a mapping are left out.
C35_ModifiersThenKey ==
    (keyCall.type = "key" /\ HasQmpMapping(keyCall.key)) =>
        /\ Cardinality({i \in 1..Len(dispatched) : dispatched[i].via = "qmp"}) <= 1
        /\ \A i \in 1..Len(dispatched) :
              dispatched[i].via = "qmp" => dispatched[i].keys = ExpectedBatch
        /\ keyPc = "qmp" => Payload = ExpectedBatch

----------------------------------------------------------------------------
(* The vision request *)

\* A field of the first answer is present: neither missing nor null.
Present(v) == v.k \notin {"undef", "null"}

\* C36: the text is taken from the chat-style content field when present,
\* else from the completion-style response field, else it is the body; the
\* second request is made exactly when that text is empty; no call makes
\* more than two requests; parseVisionPlan is called with a text that is
\* not empty only, and a text still empty after the second request fails
\* the call.
C36_ExtractionAndSecondRequest ==
    LET body == chatResponse.body
        data == IF JsonParse(body).ok THEN JsonParse(body).val ELSE JUndef
        chat == Get(Get(data, "message"), "content")
        completion == Get(data, "response")
        source == IF Present(chat) THEN "chat"
                  ELSE IF Present(completion) THEN "completion" ELSE "body"
        firstEmpty == IF Present(chat) THEN chat.s = ""
                      ELSE IF Present(completion) THEN completion.s = ""
                      ELSE body = <<>>
        extracted == chatResponse.outcome = "ok" /\ visionPc \notin {"idle", "chat"}
    IN  /\ requests <= 2
        /\ (extracted /\ requests = 1) =>
              /\ content.from = source
              /\ visionPc = "parsing"
        /\ visionPc = "generate" => content.from = source
        /\ requests = 2 <=> (extracted /\ firstEmpty)
        /\ visionPc = "parsing" => ~content.empty
        /\ visionPc = "failed-missing" => (requests = 2 /\ content.empty)
        /\ (requests = 2 /\ visionPc # "generate" /\ genResponse.outcome # "throw") =>
              (content.empty <=> visionPc = "failed-missing")

\* The chat content was present and empty although the response field held a
\* text: the second request was made and its answer is parsed.
C36_Witness ==
    /\ chatResponse = Response("ok", BothBody(<<Str("")>>, <<Str("click it")>>))
    /\ genResponse = Response("ok", CompletionBody(<<Str("click it")>>))
    /\ requests = 2
    /\ visionPc = "parsing"
    /\ content.from = "generate"

----------------------------------------------------------------------------
(* Captures sharing a staging file *)

\* C39 (as stated): the Frame a capture returns holds the image that this
\* capture's own screenshot produced, whatever other captures of the same
\* target do meanwhile.
C39_FrameIsOwnImage ==
    \A c \in Captures : shots[c].pc = "returned" => shots[c].image = c

====
